---------------------------- MODULE Spec2Model ----------------------------
(***************************************************************************)
(* A model of the OpenPSG viewer core: the EDF decoder (EDFReader), the    *)
(* cascaded biquad engine (IIRFilter) and the digital-to-physical map.     *)
(*                                                                         *)
(* Text is a sequence of character codes, a byte buffer a sequence of      *)
(* bytes (offset o is element o + 1).  A JavaScript number is a record     *)
(* [nan, n, d]: not-a-number, or the exact rational n / d in lowest terms  *)
(* with d > 0.  Offsets, counts and the filter engine's samples are small   *)
(* integers, on which double arithmetic is exact; the arithmetic of        *)
(* digitalToPhysical is rounded as floating-point arithmetic rounds.       *)
(***************************************************************************)
EXTENDS Integers, Sequences, FiniteSets, TLC

(***************************************************************************)
(* Numbers                                                                 *)
(***************************************************************************)
Abs(x) == IF x < 0 THEN -x ELSE x

RECURSIVE Gcd(_, _)
Gcd(a, b) == IF b = 0 THEN a ELSE Gcd(b, a % b)

NaN == [nan |-> TRUE, n |-> 0, d |-> 1]

Rat(n, d) ==
  LET g == Gcd(Abs(n), Abs(d))
      s == IF d < 0 THEN -1 ELSE 1
  IN  [nan |-> FALSE, n |-> (s * n) \div g, d |-> (s * d) \div g]

Num(n) == [nan |-> FALSE, n |-> n, d |-> 1]

IsInt(x) == ~x.nan /\ x.d = 1

NumAdd(x, y) ==
  IF x.nan \/ y.nan THEN NaN ELSE Rat(x.n * y.d + y.n * x.d, x.d * y.d)

NumSub(x, y) ==
  IF x.nan \/ y.nan THEN NaN ELSE Rat(x.n * y.d - y.n * x.d, x.d * y.d)

NumMul(x, y) ==
  IF x.nan \/ y.nan THEN NaN ELSE Rat(x.n * y.n, x.d * y.d)

\* 0 / 0 is not-a-number.  Elsewhere y is never zero where the modelled
\* code divides (digitalToPhysical returns before dividing when
\* digitalMax === digitalMin).
NumDiv(x, y) ==
  IF x.nan \/ y.nan \/ (x.n = 0 /\ y.n = 0)
  THEN NaN
  ELSE Rat(x.n * y.d, x.d * y.n)

\* Every comparison with not-a-number is false.
NumLt(x, y) == ~x.nan /\ ~y.nan /\ x.n * y.d < y.n * x.d

NumLe(x, y) == ~x.nan /\ ~y.nan /\ x.n * y.d <= y.n * x.d

\* Strict equality ===: not-a-number differs from everything, itself included.
NumEq(x, y) == ~x.nan /\ ~y.nan /\ x = y

(***************************************************************************)
(* Floating-point rounding                                                 *)
(*                                                                         *)
(* A JavaScript number is a binary floating-point value: every arithmetic  *)
(* operation returns its exact result rounded to the nearest value with a  *)
(* significand of Precision bits, ties to the even significand.  A double  *)
(* has 53 bits; the rounding is modelled with fewer.  The exponent range   *)
(* is not modelled (no overflow to Infinity, no underflow).                *)
(***************************************************************************)
Precision == 4

RECURSIVE Pow2(_)
Pow2(k) == IF k <= 0 THEN 1 ELSE 2 * Pow2(k - 1)

\* The power of two a with n*a >= lo, for lo = 2^(Precision-1) * d: it
\* brings n/d up to at least 2^(Precision-1).
RECURSIVE ScaleUp(_, _, _)
ScaleUp(n, lo, a) == IF n * a < lo THEN ScaleUp(n, lo, 2 * a) ELSE a

\* The power of two b with n < hi*b, for hi = 2^Precision * d: it brings
\* n/d down below 2^Precision.
RECURSIVE ScaleDown(_, _, _)
ScaleDown(n, hi, b) == IF n >= hi * b THEN ScaleDown(n, hi, 2 * b) ELSE b

\* n/d (both positive) rounded to the nearest integer, ties to even.
RoundHalfEven(n, d) ==
  LET q == n \div d
      r == n % d
  IN  IF 2 * r < d THEN q
      ELSE IF 2 * r > d THEN q + 1
      ELSE IF q % 2 = 0 THEN q ELSE q + 1

\* The representable number nearest to x.
Round(x) ==
  IF x.nan \/ x.n = 0
  THEN x
  ELSE LET n == Abs(x.n)
           lo == Pow2(Precision - 1) * x.d
           a == ScaleUp(n, lo, 1)
           b == ScaleDown(n, 2 * lo, 1)
           m == RoundHalfEven(n * a, x.d * b)
       IN  Rat((IF x.n < 0 THEN -1 ELSE 1) * m * b, a)

(***************************************************************************)
(* Text                                                                    *)
(***************************************************************************)
Ascii ==
  [c \in {" ", "+", "-", ".", "0", "1", "2", "3", "4", "5", "6", "7", "8",
          "9", "A", "B", "C", "D", "E", "F", "N", "a", "b", "c", "d", "e",
          "f", "i", "n", "o", "s", "t", "x", "X"} |->
     CASE c = " " -> 32 [] c = "+" -> 43 [] c = "-" -> 45 [] c = "." -> 46
       [] c = "0" -> 48 [] c = "1" -> 49 [] c = "2" -> 50 [] c = "3" -> 51
       [] c = "4" -> 52 [] c = "5" -> 53 [] c = "6" -> 54 [] c = "7" -> 55
       [] c = "8" -> 56 [] c = "9" -> 57 [] c = "A" -> 65 [] c = "B" -> 66
       [] c = "C" -> 67 [] c = "D" -> 68 [] c = "E" -> 69 [] c = "F" -> 70
       [] c = "N" -> 78 [] c = "a" -> 97 [] c = "b" -> 98 [] c = "c" -> 99
       [] c = "d" -> 100 [] c = "e" -> 101 [] c = "f" -> 102
       [] c = "i" -> 105 [] c = "n" -> 110 [] c = "o" -> 111
       [] c = "s" -> 115 [] c = "t" -> 116 [] c = "x" -> 120
       [] c = "X" -> 88]

\* The text written as a tuple of one-character strings.
T(cs) == [i \in 1 .. Len(cs) |-> Ascii[cs[i]]]

Min(a, b) == IF a < b THEN a ELSE b

Max(a, b) == IF a > b THEN a ELSE b

\* String.prototype.substring(start, end) for 0 <= start <= end.
Substring(s, start, end) == SubSeq(s, Min(start, Len(s)) + 1, Min(end, Len(s)))

\* A faulty startsWith: it accepts the whole text only.
StartsWithExact(s, p) == s = p

\* String.prototype.startsWith.
StartsWith(s, p) == Len(s) >= Len(p) /\ SubSeq(s, 1, Len(p)) = p

\* White space of String.prototype.trim among the characters the
\* windows-1252 decoder can produce.
IsWhite(c) == c \in {9, 10, 11, 12, 13, 32, 160}

RECURSIVE TrimStart(_)
TrimStart(s) ==
  IF s # <<>> /\ IsWhite(Head(s)) THEN TrimStart(Tail(s)) ELSE s

RECURSIVE TrimEnd(_)
TrimEnd(s) ==
  IF s # <<>> /\ IsWhite(s[Len(s)])
  THEN TrimEnd(SubSeq(s, 1, Len(s) - 1))
  ELSE s

Trim(s) == TrimEnd(TrimStart(s))

IsDigit(c) == c \in 48 .. 57

\* The number of decimal digits at the start of s.
RECURSIVE DigitRun(_)
DigitRun(s) ==
  IF s # <<>> /\ IsDigit(Head(s)) THEN 1 + DigitRun(Tail(s)) ELSE 0

RECURSIVE DigitsValue(_, _)
DigitsValue(s, acc) ==
  IF s = <<>> THEN acc ELSE DigitsValue(Tail(s), acc * 10 + (Head(s) - 48))

RECURSIVE Pow10(_)
Pow10(k) == IF k = 0 THEN 1 ELSE 10 * Pow10(k - 1)

IsHexDigit(c) == c \in (48 .. 57) \cup (65 .. 70) \cup (97 .. 102)

HexDigit(c) ==
  IF c \in 48 .. 57 THEN c - 48 ELSE IF c \in 65 .. 70 THEN c - 55 ELSE c - 87

RECURSIVE HexRun(_)
HexRun(s) ==
  IF s # <<>> /\ IsHexDigit(Head(s)) THEN 1 + HexRun(Tail(s)) ELSE 0

RECURSIVE HexValue(_, _)
HexValue(s, acc) ==
  IF s = <<>> THEN acc ELSE HexValue(Tail(s), acc * 16 + HexDigit(Head(s)))

\* The sign prefix of a numeric literal: <<sign, rest>>.
SignSplit(s) ==
  IF s # <<>> /\ Head(s) = 45 THEN <<-1, Tail(s)>>
  ELSE IF s # <<>> /\ Head(s) = 43 THEN <<1, Tail(s)>>
  ELSE <<1, s>>

\* parseInt(s) with no radix: leading white space, a sign, 0x for
\* hexadecimal, then the longest run of digits; not-a-number without one.
parseInt(s) ==
  LET p == SignSplit(TrimStart(s))
      r == p[2]
      hex == Len(r) >= 2 /\ r[1] = 48 /\ r[2] \in {120, 88}
      h == IF hex THEN SubSeq(r, 3, Len(r)) ELSE <<>>
      k == DigitRun(r)
  IN  IF hex
      THEN IF HexRun(h) = 0
           THEN NaN
           ELSE Num(p[1] * HexValue(SubSeq(h, 1, HexRun(h)), 0))
      ELSE IF k = 0 THEN NaN ELSE Num(p[1] * DigitsValue(SubSeq(r, 1, k), 0))

\* parseFloat(s): leading white space, a sign, digits with an optional
\* fraction (at least one digit in all); not-a-number otherwise.  The
\* texts drawn in this model hold no exponent and no "Infinity".
parseFloat(s) ==
  LET p == SignSplit(TrimStart(s))
      r == p[2]
      k == DigitRun(r)
      dot == Len(r) > k /\ r[k + 1] = 46
      fr == IF dot THEN SubSeq(r, k + 2, Len(r)) ELSE <<>>
      m == DigitRun(fr)
  IN  IF k + m = 0
      THEN NaN
      ELSE Rat(p[1] * (DigitsValue(SubSeq(r, 1, k), 0) * Pow10(m)
                       + DigitsValue(SubSeq(fr, 1, m), 0)),
               Pow10(m))

\* String.prototype.split on a one-character separator.
RECURSIVE Split(_, _)
Split(s, sep) ==
  LET RECURSIVE Upto(_)
      Upto(i) == IF i > Len(s) \/ s[i] = sep THEN i ELSE Upto(i + 1)
      j == Upto(1)
  IN  IF j > Len(s)
      THEN <<s>>
      ELSE <<SubSeq(s, 1, j - 1)>> \o Split(SubSeq(s, j + 1, Len(s)), sep)

\* String.prototype.replace(/\0/g, "").
StripNul(s) == SelectSeq(s, LAMBDA c : c # 0)

(***************************************************************************)
(* EDFReader: the decoder's state                                          *)
(***************************************************************************)
VARIABLES
  byteArray,   \* this.byteArray / this.view: the file, never written
  header,      \* this.header: 0 (undefined) or a reference into heap
  heap,        \* the EDFHeader objects alive: reference -> value
  held,        \* the references readHeader has handed to the caller
  last,        \* the last call: operation, arguments and outcome
  fixture      \* the description the file was written from, never written

edfVars == <<byteArray, header, heap, held, last, fixture>>

\* The state of one calibration being applied (digitalToPhysical on its
\* own) and of one filter engine; both stay as they are while the decoder
\* runs.
VARIABLES
  calibration, \* the EDFSignal whose calibration is applied
  converted,   \* the latest conversions: digital value and physical value
  filter,      \* IIRFilter.filter: the coefficients the engine was built from
  cf,          \* IIRFilter.cf: the stages, each with its delay state z
  result       \* the last call on the engine: operation, input and output

d2pVars == <<calibration, converted>>

iirVars == <<filter, cf, result>>

\* The state of one filter-design call; it stays as it is while the decoder,
\* a calibration or an engine runs.
VARIABLES
  params,      \* the CascadeParams of the last calcCoeffs call
  designed     \* what that call returned or threw

designVars == <<params, designed>>

\* Two engines built from one coefficient list.
VARIABLES
  shared,      \* the FilterCoeffs[] both engines were constructed from
  store,       \* the delay arrays alive: reference -> [z0, z1]
  engines,     \* the cf of the first and of the second engine
  fed,         \* per engine, the samples it was given, in order
  got,         \* per engine, the outputs it returned, in order
  turns,       \* the engines of the last three calls
  analysed     \* the last analysis call and what it returned

twinVars == <<shared, store, engines, fed, got, turns, analysed>>

\* The frequency response of an engine, and one resample call.
VARIABLES
  cascade,     \* the FilterCoeffs[] the engine asked was constructed from
  response,    \* the last call on that engine: operation, argument, result
  series,      \* the arguments of the resample call: input, n, upsample
  resampled    \* what the resample call returned

respVars == <<cascade, response>>

resampleVars == <<series, resampled>>

\* The variables of the filter designer and of the runs after it.
\* One call of a signal helper (getFiltersForSignal, convertSignalUnit,
\* getYAxisRangeForSignal), and the viewer's window.
VARIABLES
  asked,       \* the helper called and its arguments
  answered,    \* what the call returned or threw
  xRange,      \* PSGViewer's xRange state: [start, end], in seconds
  totalDuration, \* PSGViewer's totalDuration, in seconds
  events       \* the number of key and relayout events handled so far

signalVars == <<asked, answered>>

viewerVars == <<xRange, totalDuration, events>>

laterVars == <<signalVars, viewerVars>>

otherVars == <<designVars, twinVars, respVars, resampleVars, laterVars>>

vars == <<edfVars, d2pVars, iirVars, otherVars>>

NoDesign == params = <<>> /\ designed = <<>>

NoTwin ==
  /\ shared = <<>>
  /\ store = <<>>
  /\ engines = <<>>
  /\ fed = <<>>
  /\ got = <<>>
  /\ turns = <<>>
  /\ analysed = <<>>

NoResponse == cascade = <<>> /\ response = <<>>

NoResample == series = <<>> /\ resampled = <<>>

NoSignal == asked = <<>> /\ answered = <<>>

NoViewer == xRange = <<>> /\ totalDuration = 0 /\ events = 0

NoLater == NoSignal /\ NoViewer

NoOthers == NoDesign /\ NoTwin /\ NoResponse /\ NoResample /\ NoLater

NoConversion == calibration = <<>> /\ converted = <<>>

NoEngine == filter = <<>> /\ cf = <<>> /\ result = <<>>

NoFile ==
  /\ byteArray = <<>>
  /\ header = 0
  /\ heap = <<>>
  /\ held = {}
  /\ last = <<>>
  /\ fixture = <<>>

\* new TextDecoder("ascii") is the windows-1252 decoder: it never fails,
\* and maps every byte but 0x80..0x9F to the code point of the same value.
Windows1252 ==
  [b \in 128 .. 159 |->
     CASE b = 128 -> 8364 [] b = 130 -> 8218 [] b = 131 -> 402
       [] b = 132 -> 8222 [] b = 133 -> 8230 [] b = 134 -> 8224
       [] b = 135 -> 8225 [] b = 136 -> 710 [] b = 137 -> 8240
       [] b = 138 -> 352 [] b = 139 -> 8249 [] b = 140 -> 338
       [] b = 142 -> 381 [] b = 145 -> 8216 [] b = 146 -> 8217
       [] b = 147 -> 8220 [] b = 148 -> 8221 [] b = 149 -> 8226
       [] b = 150 -> 8211 [] b = 151 -> 8212 [] b = 152 -> 732
       [] b = 153 -> 8482 [] b = 154 -> 353 [] b = 155 -> 8250
       [] b = 156 -> 339 [] b = 158 -> 382 [] b = 159 -> 376
       [] OTHER -> b]

decode(bytes) ==
  [i \in 1 .. Len(bytes) |->
     IF bytes[i] \in 128 .. 159 THEN Windows1252[bytes[i]] ELSE bytes[i]]

\* ToIntegerOrInfinity of a subarray bound: not-a-number counts as 0, a
\* negative bound counts from the end, and the result is clamped.
RelIndex(x, len) ==
  IF x.nan THEN 0
  ELSE IF x.n < 0 THEN Max(len + x.n, 0)
  ELSE Min(x.n, len)

\* A faulty subarray: it fails outside the buffer, as DataView reads do.
subarrayStrict(bytes, begin, end) ==
  IF begin.nan \/ end.nan \/ begin.n < 0 \/ end.n > Len(bytes)
  THEN [ok |-> FALSE, bytes |-> <<>>]
  ELSE [ok |-> TRUE, bytes |-> SubSeq(bytes, begin.n + 1, end.n)]

\* Uint8Array.prototype.subarray(begin, end): clamps, never fails.
subarray(bytes, begin, end) ==
  [ok |-> TRUE,
   bytes |-> SubSeq(bytes, RelIndex(begin, Len(bytes)) + 1,
                    RelIndex(end, Len(bytes)))]

GlobalHeaderSize == 256

\* An offset that steps by the field's start instead of its width.
fieldOffsetByStart(signalCount, start, end, signalIndex) ==
  GlobalHeaderSize + start * signalCount + start * signalIndex

\* The offset of readFieldText (line 189).
fieldOffset(signalCount, start, end, signalIndex) ==
  GlobalHeaderSize + start * signalCount + (end - start) * signalIndex

\* readFieldText(signalCount, start, end, signalIndex).
readFieldText(bytes, signalCount, start, end, signalIndex) ==
  LET offset == fieldOffset(signalCount, start, end, signalIndex)
  IN  decode(subarray(bytes, Num(offset), Num(offset + (end - start))).bytes)

\* The (start, end) arguments of the ten readFieldText calls of lines 48-73.
SignalFields ==
  [label |-> <<0, 16>>,
   transducerType |-> <<16, 96>>,
   physicalDimension |-> <<96, 104>>,
   physicalMin |-> <<104, 112>>,
   physicalMax |-> <<112, 120>>,
   digitalMin |-> <<120, 128>>,
   digitalMax |-> <<128, 136>>,
   prefiltering |-> <<136, 216>>,
   samplesPerRecord |-> <<216, 224>>,
   reserved |-> <<224, 256>>]

readField(bytes, signalCount, field, i) ==
  readFieldText(bytes, signalCount, field[1], field[2], i)

\* The i-th (0-based) EDFSignal of the header, lines 48-74.
readSignalHeader(bytes, signalCount, i) ==
  [label |-> Trim(readField(bytes, signalCount, SignalFields.label, i)),
   transducerType |->
     Trim(readField(bytes, signalCount, SignalFields.transducerType, i)),
   physicalDimension |->
     Trim(readField(bytes, signalCount, SignalFields.physicalDimension, i)),
   physicalMin |->
     parseFloat(readField(bytes, signalCount, SignalFields.physicalMin, i)),
   physicalMax |->
     parseFloat(readField(bytes, signalCount, SignalFields.physicalMax, i)),
   digitalMin |->
     parseInt(readField(bytes, signalCount, SignalFields.digitalMin, i)),
   digitalMax |->
     parseInt(readField(bytes, signalCount, SignalFields.digitalMax, i)),
   prefiltering |->
     Trim(readField(bytes, signalCount, SignalFields.prefiltering, i)),
   samplesPerRecord |->
     parseInt(readField(bytes, signalCount, SignalFields.samplesPerRecord, i)),
   reserved |-> Trim(readField(bytes, signalCount, SignalFields.reserved, i))]

\* The reserved-field prefix of a discontinuous recording.
DiscontinuousMarker == T(<<"E", "D", "F", "+", "D">>)

\* readHeader past the memo test (lines 23-88): the header parsed from the
\* bytes, or the error thrown.  startTime stands for the Date that
\* date-fns builds from the two texts; no modelled operation reads it.
parseHeader(bytes) ==
  LET headerText == decode(subarray(bytes, Num(0), Num(256)).bytes)
      reserved == Trim(Substring(headerText, 192, 236))
      signalCount == parseInt(Trim(Substring(headerText, 252, 256)))
      n == IF signalCount.nan THEN 0 ELSE Max(signalCount.n, 0)
  IN  IF StartsWith(reserved, DiscontinuousMarker)
      THEN [ok |-> FALSE, error |-> "discontinuous recordings not supported"]
      ELSE [ok |-> TRUE,
            error |-> "",
            value |->
              [version |-> Trim(Substring(headerText, 0, 8)),
               patientId |-> Trim(Substring(headerText, 8, 88)),
               recordingId |-> Trim(Substring(headerText, 88, 168)),
               startTime |-> <<Trim(Substring(headerText, 168, 176)),
                               Trim(Substring(headerText, 176, 184))>>,
               headerBytes |-> parseInt(Trim(Substring(headerText, 184, 192))),
               reserved |-> reserved,
               dataRecords |-> parseInt(Trim(Substring(headerText, 236, 244))),
               recordDuration |->
                 parseFloat(Trim(Substring(headerText, 244, 252))),
               signalCount |-> signalCount,
               signals |->
                 [i \in 1 .. n |-> readSignalHeader(bytes, signalCount.n, i - 1)]]]

\* _.cloneDeep of the object at ref: a new object with an equal value.
cloneDeep(hp, ref) == Append(hp, hp[ref])

\* A faulty digitalToPhysical: the scaled value without the physicalMin
\* offset.
digitalToPhysicalNoOffset(digital, signal) ==
  IF NumEq(signal.digitalMax, signal.digitalMin)
  THEN Num(0)
  ELSE Round(NumDiv(Round(NumMul(Round(NumSub(digital, signal.digitalMin)),
                                 Round(NumSub(signal.physicalMax,
                                              signal.physicalMin)))),
                    Round(NumSub(signal.digitalMax, signal.digitalMin))))

\* digitalToPhysical(digital, signal), lines 195-203: each subtraction, the
\* product, the quotient and the sum round their result.
digitalToPhysical(digital, signal) ==
  IF NumEq(signal.digitalMax, signal.digitalMin)
  THEN Num(0)
  ELSE LET span == Round(NumSub(signal.physicalMax, signal.physicalMin))
           steps == Round(NumSub(digital, signal.digitalMin))
           range == Round(NumSub(signal.digitalMax, signal.digitalMin))
           scaled == Round(NumDiv(Round(NumMul(steps, span)), range))
       IN  Round(NumAdd(signal.physicalMin, scaled))

\* DataView.prototype.getInt16(offset, true): a RangeError outside the
\* buffer, else the little-endian two's-complement value.
getInt16(bytes, offset) ==
  LET idx == IF offset.nan THEN 0
             ELSE IF offset.n < 0 THEN -((-offset.n) \div offset.d)
             ELSE offset.n \div offset.d
      u == bytes[idx + 1] + 256 * bytes[idx + 2]
  IN  IF idx < 0 \/ idx + 2 > Len(bytes)
      THEN [ok |-> FALSE, value |-> 0]
      ELSE [ok |-> TRUE, value |-> IF u >= 32768 THEN u - 65536 ELSE u]

\* signals.slice(0, upTo).reduce((sum, s) => sum + s.samplesPerRecord * 2, 0).
RECURSIVE SumBytes(_, _)
SumBytes(signals, upTo) ==
  IF upTo = 0
  THEN Num(0)
  ELSE NumAdd(SumBytes(signals, upTo - 1),
              NumMul(signals[upTo].samplesPerRecord, Num(2)))

\* recordSize, lines 100-103 and 136-139.
recordSize(h) == SumBytes(h.signals, Len(h.signals))

\* A faulty signalByteOffset: it counts samples where it must count bytes.
signalByteOffsetInSamples(h, signalIndex) ==
  NumDiv(SumBytes(h.signals, signalIndex), Num(2))

\* signalByteOffset, lines 109-111 and 145-147.
signalByteOffset(h, signalIndex) == SumBytes(h.signals, signalIndex)

\* sampleOffset, lines 114 and 117.
sampleOffset(h, signalIndex, rec, j) ==
  NumAdd(NumAdd(NumAdd(h.headerBytes, NumMul(Num(rec), recordSize(h))),
                signalByteOffset(h, signalIndex)),
         Num(j * 2))

\* startRecord and endRecord, lines 105-107 and 141-143; an absent
\* recordNumber is <<>>, a given one <<r>>.
startRecord(recordNumber) ==
  IF recordNumber = <<>> THEN 0 ELSE recordNumber[1]

endRecord(h, recordNumber) ==
  IF recordNumber # <<>> THEN Num(recordNumber[1] + 1) ELSE h.dataRecords

\* The byte offsets readSignal reads, in the order of its two loops.
signalOffsets(h, signalIndex, recordNumber) ==
  LET spr == h.signals[signalIndex + 1].samplesPerRecord
      stop == endRecord(h, recordNumber)
      RECURSIVE Samples(_, _)
      Samples(rec, j) ==
        IF NumLt(Num(j), spr)
        THEN <<sampleOffset(h, signalIndex, rec, j)>> \o Samples(rec, j + 1)
        ELSE <<>>
      RECURSIVE Records(_)
      Records(rec) ==
        IF NumLt(Num(rec), stop)
        THEN Samples(rec, 0) \o Records(rec + 1)
        ELSE <<>>
  IN  Records(startRecord(recordNumber))

\* readSignal on the header it has obtained (lines 95-124).
readSignal(h, bytes, signalIndex, recordNumber) ==
  IF signalIndex \notin 0 .. Len(h.signals) - 1
  THEN [ok |-> FALSE, error |-> "TypeError", ret |-> <<>>]
  ELSE LET signal == h.signals[signalIndex + 1]
           offs == signalOffsets(h, signalIndex, recordNumber)
       IN  IF \E k \in 1 .. Len(offs) : ~getInt16(bytes, offs[k]).ok
           THEN [ok |-> FALSE, error |-> "RangeError", ret |-> <<>>]
           ELSE [ok |-> TRUE,
                 error |-> "",
                 ret |->
                   [k \in 1 .. Len(offs) |->
                      digitalToPhysical(Num(getInt16(bytes, offs[k]).value),
                                        signal)]]

AnnotationMarker ==
  T(<<"E", "D", "F", " ", "A", "n", "n", "o", "t", "a", "t", "i", "o", "n",
      "s">>)

\* String.prototype.includes.
Includes(s, sub) ==
  \E i \in 0 .. Len(s) - Len(sub) : SubSeq(s, i + 1, i + Len(sub)) = sub

\* A findIndex that answers 0 where nothing matches.
findIndexOrFirst(signals, sub) ==
  LET hits == {i \in 1 .. Len(signals) : Includes(signals[i].label, sub)}
  IN  IF hits = {}
      THEN 0
      ELSE (CHOOSE i \in hits : \A k \in hits : i <= k) - 1

\* signals.findIndex(...): the 0-based index of the first match, or -1.
findIndex(signals, sub) ==
  LET hits == {i \in 1 .. Len(signals) : Includes(signals[i].label, sub)}
  IN  IF hits = {}
      THEN -1
      ELSE (CHOOSE i \in hits : \A k \in hits : i <= k) - 1

\* /^-?\d+\.?\d*/.test(entry): an optional minus sign, then a digit.
LeadingNumber(entry) ==
  \/ entry # <<>> /\ IsDigit(entry[1])
  \/ Len(entry) >= 2 /\ entry[1] = 45 /\ IsDigit(entry[2])

\* The test of line 165: the entry is the onset (and duration) of a TAL.
isOnsetEntry(entry) == StartsWith(entry, <<43>>) \/ LeadingNumber(entry)

\* One pass of the loop of lines 162-177 over the entries from position i,
\* with the loop's three variables.
RECURSIVE talEntries(_, _, _, _, _)
talEntries(entries, i, currentOnset, currentDuration, annotations) ==
  IF i > Len(entries)
  THEN annotations
  ELSE LET entry == entries[i]
           parts == Split(entry, 21)
           onset == parseFloat(parts[1])
       IN  IF entry = <<>>
           THEN talEntries(entries, i + 1, currentOnset, currentDuration,
                           annotations)
           ELSE IF isOnsetEntry(entry)
           THEN talEntries(entries, i + 1,
                           IF onset.nan \/ onset.n = 0 THEN Num(0) ELSE onset,
                           IF Len(parts) >= 2
                           THEN <<parseFloat(parts[2])>>
                           ELSE <<>>,
                           annotations)
           ELSE talEntries(entries, i + 1, currentOnset, currentDuration,
                           Append(annotations,
                                  [onset |-> currentOnset,
                                   duration |-> currentDuration,
                                   annotation |-> Trim(entry)]))

\* The text of the annotation channel in record rec (lines 153-157).
recordText(h, bytes, annSignalIndex, rec) ==
  LET start == NumAdd(NumAdd(h.headerBytes, NumMul(Num(rec), recordSize(h))),
                      signalByteOffset(h, annSignalIndex))
      end == NumAdd(start,
                    NumMul(h.signals[annSignalIndex + 1].samplesPerRecord,
                           Num(2)))
      slice == subarray(bytes, start, end)
  IN  [ok |-> slice.ok, text |-> StripNul(decode(slice.bytes))]

\* readAnnotations on the header it has obtained (lines 129-180).
readAnnotations(h, bytes, recordNumber) ==
  LET annSignalIndex == findIndex(h.signals, AnnotationMarker)
      stop == endRecord(h, recordNumber)
      first == startRecord(recordNumber)
      RECURSIVE Records(_)
      Records(rec) ==
        IF NumLt(Num(rec), stop)
        THEN talEntries(Split(recordText(h, bytes, annSignalIndex, rec).text,
                              20),
                        1, Num(0), <<>>, <<>>)
             \o Records(rec + 1)
        ELSE <<>>
      RECURSIVE Fails(_)
      Fails(rec) ==
        NumLt(Num(rec), stop)
        /\ (~recordText(h, bytes, annSignalIndex, rec).ok \/ Fails(rec + 1))
  IN  IF annSignalIndex = -1
      THEN [ok |-> TRUE, error |-> "", ret |-> <<>>]
      ELSE IF Fails(first)
      THEN [ok |-> FALSE, error |-> "RangeError", ret |-> <<>>]
      ELSE [ok |-> TRUE, error |-> "", ret |-> Records(first)]

(***************************************************************************)
(* The files the decoder is run on.  A file is written from a description  *)
(* fd: the texts of the numeric header fields, the reserved field, one     *)
(* record of field texts per signal, and the bytes after the header.       *)
(***************************************************************************)
MaxSignals == 2

MaxRecords == 2

Pad(s, w) == s \o [i \in 1 .. w - Len(s) |-> 32]

RECURSIVE Dec(_)
Dec(n) == IF n < 10 THEN <<48 + n>> ELSE Dec(n \div 10) \o <<48 + (n % 10)>>

RECURSIVE Flatten(_)
Flatten(ss) == IF ss = <<>> THEN <<>> ELSE Head(ss) \o Flatten(Tail(ss))

Column(sigs, name, w) ==
  Flatten([i \in 1 .. Len(sigs) |-> Pad(sigs[i][name], w)])

EncodeFile(fd) ==
  Pad(T(<<"0">>), 8) \o Pad(T(<<"X">>), 80) \o Pad(T(<<"X">>), 80)
  \o T(<<"1", "0", ".", "1", "2", ".", "0", "9">>)
  \o T(<<"1", "2", ".", "4", "4", ".", "0", "2">>)
  \o Pad(fd.headerBytes, 8) \o Pad(fd.reserved, 44)
  \o Pad(fd.dataRecords, 8) \o Pad(fd.recordDuration, 8)
  \o Pad(fd.signalCount, 4)
  \o Column(fd.signals, "label", 16) \o Column(fd.signals, "transducerType", 80)
  \o Column(fd.signals, "physicalDimension", 8)
  \o Column(fd.signals, "physicalMin", 8)
  \o Column(fd.signals, "physicalMax", 8)
  \o Column(fd.signals, "digitalMin", 8)
  \o Column(fd.signals, "digitalMax", 8)
  \o Column(fd.signals, "prefiltering", 80)
  \o Column(fd.signals, "samplesPerRecord", 8)
  \o Column(fd.signals, "reserved", 32)
  \o fd.data

\* Sample bytes that differ from one sample to the next, of both signs.
Pattern(n) == [k \in 1 .. n |-> (37 * k + 90) % 256]

\* The calibration of the i-th signal of a file: the reference recording's,
\* a fractional physical range, and a range of both signs.
Calibration(i) ==
  CASE i = 1 -> [physicalMin |-> T(<<"-", "1", "0", "0", "0">>),
                 physicalMax |-> T(<<"1", "0", "0", "0">>),
                 digitalMin |-> T(<<"-", "3", "2", "7", "6", "8">>),
                 digitalMax |-> T(<<"3", "2", "7", "6", "7">>)]
    [] i = 2 -> [physicalMin |-> T(<<"-", "1", ".", "5">>),
                 physicalMax |-> T(<<"1", ".", "5">>),
                 digitalMin |-> T(<<"-", "2">>),
                 digitalMax |-> T(<<"2">>)]
    [] OTHER -> [physicalMin |-> T(<<"0">>),
                 physicalMax |-> T(<<"5">>),
                 digitalMin |-> T(<<"-", "1", "0">>),
                 digitalMax |-> T(<<"1", "0">>)]

SignalText(i, label, spr) ==
  [label |-> label,
   transducerType |-> <<>>,
   physicalDimension |-> <<>>,
   physicalMin |-> Calibration(i).physicalMin,
   physicalMax |-> Calibration(i).physicalMax,
   digitalMin |-> Calibration(i).digitalMin,
   digitalMax |-> Calibration(i).digitalMax,
   prefiltering |-> <<>>,
   samplesPerRecord |-> Dec(spr),
   reserved |-> <<>>]

RECURSIVE SumSeq(_)
SumSeq(q) == IF q = <<>> THEN 0 ELSE Head(q) + SumSeq(Tail(q))

\* A conformant file: profile[i] samples per record for signal i, records
\* data records, and exactly the bytes the header announces.
Conformant(profile, records) ==
  [headerBytes |-> Dec(256 + 256 * Len(profile)),
   reserved |-> <<>>,
   dataRecords |-> Dec(records),
   recordDuration |-> T(<<"1">>),
   signalCount |-> Dec(Len(profile)),
   signals |-> [i \in 1 .. Len(profile) |->
                  SignalText(i, T(<<"s", "i", "n", "e">>), profile[i])],
   data |-> Pattern(2 * SumSeq(profile) * records),
   kind |-> "conformant",
   profile |-> profile,
   records |-> records,
   field |-> "",
   contents |-> <<>>]

\* The samples per record of the signals of a file: one sample or two.
Profiles ==
  UNION {[1 .. n -> {1, 2}] : n \in 1 .. MaxSignals}

ConformantFiles ==
  {Conformant(p, r) : p \in Profiles, r \in {1, MaxRecords}}

Base == Conformant(<<1, 1>>, 1)

\* Texts that are no decimal number: letters, and a number followed by a
\* letter.
BadNumbers == {T(<<"a", "b", "c">>), T(<<"1", "x">>)}

GlobalNumeric ==
  {"headerBytes", "dataRecords", "recordDuration", "signalCount"}

SignalNumeric ==
  {"physicalMin", "physicalMax", "digitalMin", "digitalMax",
   "samplesPerRecord"}

\* The base file with one numeric field replaced by a malformed text.
MalformedFiles ==
  {[[Base EXCEPT ![f] = t] EXCEPT !.kind = "malformed", !.field = f] :
     f \in GlobalNumeric, t \in BadNumbers}
  \cup
  {[[Base EXCEPT !.signals[1][f] = t] EXCEPT !.kind = "malformed",
                                              !.field = f] :
     f \in SignalNumeric, t \in BadNumbers}

\* The base file with the reserved field of an EDF+ recording.
ReservedFiles ==
  {[Base EXCEPT !.reserved = t, !.kind = "reserved"] :
     t \in {T(<<"E", "D", "F", "+", "C">>), T(<<"E", "D", "F", "+", "D">>),
            T(<<"E", "D", "F", "+", "D", " ", "1">>),
            T(<<"E", "D", "F">>)}}

\* The base file with one record missing, and with one record too many.
OddLengthFiles ==
  {[Conformant(<<1, 1>>, 2) EXCEPT !.data = Pattern(4), !.kind = "short"],
   [Base EXCEPT !.data = Pattern(8), !.kind = "long"],
   [Conformant(<<0, 1>>, 1) EXCEPT !.kind = "empty signal"]}

EdfFiles ==
  ConformantFiles \cup MalformedFiles \cup ReservedFiles \cup OddLengthFiles

(***************************************************************************)
(* Files with an annotation channel.  A TAL is described by its onset (the *)
(* text and the number it denotes), its duration if it has one, and its    *)
(* annotation texts; the channel holds, per record, the TALs one after the *)
(* other, each closed by a NUL, and NUL padding.                           *)
(***************************************************************************)
Onsets ==
  {[text |-> T(<<"+", "0">>), value |-> Num(0)],
   [text |-> T(<<"+", "3", "0">>), value |-> Num(30)],
   [text |-> T(<<"-", "1", ".", "5">>), value |-> Rat(-3, 2)]}

Durations ==
  {<<>>, <<[text |-> T(<<"2", ".", "5">>), value |-> Rat(5, 2)]>>}

\* No annotation, the empty annotation of a time-keeping TAL, one
\* annotation, two of which one is padded with a space, and two of which
\* the first starts with a digit or with a plus sign.
TextLists ==
  {<<>>, <<<<>>>>, <<T(<<"A">>)>>, <<T(<<"a", " ", "b">>), T(<<" ", "B">>)>>,
   <<T(<<"1", " ", "b">>), T(<<"B">>)>>,
   <<T(<<"+", "x">>), T(<<"B">>)>>}

Tals ==
  {[onset |-> o, duration |-> d, texts |-> ts] :
     o \in Onsets, d \in Durations, ts \in TextLists}

EncodeTal(tal) ==
  tal.onset.text
  \o (IF tal.duration = <<>> THEN <<>> ELSE <<21>> \o tal.duration[1].text)
  \o <<20>>
  \o Flatten([i \in 1 .. Len(tal.texts) |-> tal.texts[i] \o <<20>>])
  \o <<0>>

\* The channel of one record: one TAL, or one TAL and a second with one
\* annotation.
TalLists ==
  {<<t>> : t \in Tals}
  \cup {<<t, u>> : t \in Tals, u \in {v \in Tals : v.texts = <<T(<<"A">>)>>}}

\* The TAL of the records after the first: record k is stamped +30.
LaterTal ==
  [onset |-> [text |-> T(<<"+", "3", "0">>), value |-> Num(30)],
   duration |-> <<>>,
   texts |-> <<T(<<"B">>)>>]

RECURSIVE MaxLen(_)
MaxLen(ss) == IF ss = <<>> THEN 0 ELSE Max(Len(Head(ss)), MaxLen(Tail(ss)))

NulPad(s, w) == s \o [i \in 1 .. w - Len(s) |-> 0]

\* A file of one ordinary signal and the annotation signal, whose channel
\* in record k holds the bytes channel[k]; cut bytes are missing at the end.
AnnotationFile(kind, contents, channel, cut) ==
  LET spr == (MaxLen(channel) + 1) \div 2
      data == Flatten([k \in 1 .. Len(channel) |->
                         Pattern(2) \o NulPad(channel[k], 2 * spr)])
  IN  [headerBytes |-> Dec(768),
       reserved |-> T(<<"E", "D", "F", "+", "C">>),
       dataRecords |-> Dec(Len(channel)),
       recordDuration |-> T(<<"1">>),
       signalCount |-> Dec(2),
       signals |-> <<SignalText(1, T(<<"s", "i", "n", "e">>), 1),
                     SignalText(1, AnnotationMarker, spr)>>,
       data |-> SubSeq(data, 1, Len(data) - cut),
       kind |-> kind,
       profile |-> <<1, spr>>,
       records |-> Len(channel),
       field |-> "",
       contents |-> contents]

\* Well-formed channels: the first record holds the TALs of a list, every
\* later record the later TAL.
TalContents(tals, records) ==
  [k \in 1 .. records |-> IF k = 1 THEN tals ELSE <<LaterTal>>]

TalFile(tals, records) ==
  LET contents == TalContents(tals, records)
  IN  AnnotationFile("tal", contents,
                     [k \in 1 .. records |->
                        Flatten([i \in 1 .. Len(contents[k]) |->
                                   EncodeTal(contents[k][i])])],
                     0)

TalFiles == {TalFile(tals, r) : tals \in TalLists, r \in {1, MaxRecords}}

\* The time-keeping TAL of a record: the record's onset and an empty text.
KeepingTal ==
  [onset |-> [text |-> T(<<"+", "3", "0">>), value |-> Num(30)],
   duration |-> <<>>,
   texts |-> <<<<>>>>]

\* A recording whose records after the first hold nothing but their
\* time-keeping TAL.
KeepingFile(tals, records) ==
  LET contents == [k \in 1 .. records |->
                     IF k = 1 THEN tals ELSE <<KeepingTal>>]
  IN  AnnotationFile("tal", contents,
                     [k \in 1 .. records |->
                        Flatten([i \in 1 .. Len(contents[k]) |->
                                   EncodeTal(contents[k][i])])],
                     0)

KeepingFiles == {KeepingFile(<<t>>, MaxRecords) : t \in Tals}

\* Channels of arbitrary segments, each closed by the separator 0x14:
\* letters where an onset belongs, a plus sign before letters, a lone sign,
\* a text that starts with a digit, a malformed duration, bytes above 127.
SegmentLists ==
  {<<T(<<"a", "b", "c">>)>>,
   <<T(<<"a", "b", "c">>), T(<<"A">>)>>,
   <<T(<<"+", "a", "b", "c">>), T(<<"A">>)>>,
   <<T(<<"+", "1">>), <<>>, T(<<"A">>), T(<<"x">>), T(<<"+", "2">>), T(<<"B">>)>>,
   <<T(<<"-">>), T(<<"A">>)>>,
   <<T(<<"+">>)>>,
   <<T(<<"1", " ", "b">>), T(<<"A">>)>>,
   <<T(<<"+", "1">>) \o <<21>> \o T(<<"x">>), T(<<"A">>)>>,
   <<T(<<".", "5">>), T(<<" ">>)>>,
   <<<<255, 138>>, <<160>>>>,
   <<<<>>, <<>>>>}

RawFile(segments, cut) ==
  AnnotationFile(IF cut = 0 THEN "raw" ELSE "cut", <<segments>>,
                 <<Flatten([i \in 1 .. Len(segments) |->
                              segments[i] \o <<20>>])>>,
                 cut)

RawFiles == {RawFile(segments, cut) : segments \in SegmentLists, cut \in {0, 3}}

AnnotationFiles == TalFiles \cup KeepingFiles \cup RawFiles

\* A recording with an annotation channel among the files of the decoder's
\* general run: one TAL with one annotation in its one record.
MarkedFiles ==
  {TalFile(<<t>>, 1) :
     t \in {u \in Tals : /\ u.texts = <<T(<<"A">>)>>
                          /\ u.duration = <<>>
                          /\ u.onset.value = Num(0)}}

(***************************************************************************)
(* EDFReader: the operations                                               *)
(***************************************************************************)
\* A finished call: its operation, its arguments, the dataRecords of the
\* header it ran with (<<>> when it obtained none) and its outcome.
Call(op, signalIndex, recordNumber, dataRecords, outcome) ==
  [op |-> op, signalIndex |-> signalIndex, recordNumber |-> recordNumber,
   dataRecords |-> dataRecords,
   ok |-> outcome.ok, error |-> outcome.error, ret |-> outcome.ret]

NoCall ==
  Call("none", <<>>, <<>>, <<>>, [ok |-> TRUE, error |-> "", ret |-> <<>>])

Thrown(error) == [ok |-> FALSE, error |-> error, ret |-> <<>>]

InitEDF(files) ==
  /\ fixture \in files
  /\ byteArray = EncodeFile(fixture)
  /\ header = 0
  /\ heap = <<>>
  /\ held = {}
  /\ last = NoCall
  /\ NoConversion
  /\ NoEngine
  /\ NoOthers

\* readHeader(), lines 20-91: the memo itself when there is one; else
\* parse, store the parsed header in this.header and return a deep copy.
ReadHeader ==
  /\ IF header # 0
     THEN /\ last' = Call("readHeader", <<>>, <<>>,
                          <<heap[header].dataRecords>>,
                          [ok |-> TRUE, error |-> "", ret |-> header])
          /\ held' = held \cup {header}
          /\ UNCHANGED <<header, heap>>
     ELSE LET r == parseHeader(byteArray)
          IN  IF r.ok
              THEN /\ heap' = cloneDeep(<<r.value>>, 1)
                   /\ header' = 1
                   /\ held' = held \cup {2}
                   /\ last' = Call("readHeader", <<>>, <<>>,
                                   <<r.value.dataRecords>>,
                                   [ok |-> TRUE, error |-> "", ret |-> 2])
              ELSE /\ last' = Call("readHeader", <<>>, <<>>, <<>>,
                                   Thrown(r.error))
                   /\ UNCHANGED <<header, heap, held>>
  /\ UNCHANGED <<byteArray, fixture, d2pVars, iirVars, otherVars>>

\* const header = this.header ?? this.readHeader() (lines 94 and 128):
\* the memo, or the outcome of parsing.
obtainHeader ==
  IF header # 0
  THEN [ok |-> TRUE, error |-> "", value |-> heap[header]]
  ELSE parseHeader(byteArray)

\* The assignment of line 77 made by that readHeader call, when it parsed
\* a header.
memoize(r) ==
  IF header = 0 /\ r.ok
  THEN heap' = cloneDeep(<<r.value>>, 1) /\ header' = 1
  ELSE UNCHANGED <<header, heap>>

\* readSignal(signalIndex, recordNumber?), lines 93-125.
ReadSignal(signalIndex, recordNumber) ==
  LET r == obtainHeader
  IN  /\ last' = IF r.ok
                 THEN Call("readSignal", <<signalIndex>>, recordNumber,
                           <<r.value.dataRecords>>,
                           readSignal(r.value, byteArray, signalIndex,
                                      recordNumber))
                 ELSE Call("readSignal", <<signalIndex>>, recordNumber, <<>>,
                           Thrown(r.error))
      /\ memoize(r)
      /\ UNCHANGED <<byteArray, held, fixture, d2pVars, iirVars, otherVars>>

\* readAnnotations(recordNumber?), lines 127-181.
ReadAnnotations(recordNumber) ==
  LET r == obtainHeader
  IN  /\ last' = IF r.ok
                 THEN Call("readAnnotations", <<>>, recordNumber,
                           <<r.value.dataRecords>>,
                           readAnnotations(r.value, byteArray, recordNumber))
                 ELSE Call("readAnnotations", <<>>, recordNumber, <<>>,
                           Thrown(r.error))
      /\ memoize(r)
      /\ UNCHANGED <<byteArray, held, fixture, d2pVars, iirVars, otherVars>>

\* The caller writes to a header it was handed: header.dataRecords = 0.
MutateHeader(ref) ==
  /\ ref \in held
  /\ heap[ref].dataRecords # Num(0)
  /\ heap' = [heap EXCEPT ![ref].dataRecords = Num(0)]
  /\ UNCHANGED <<byteArray, header, held, last, fixture, d2pVars, iirVars, otherVars>>

\* The arguments the calls are made with: indices on both sides of the
\* valid ranges, and the record number absent or given.
SignalIndices == -1 .. MaxSignals

RecordNumbers == {<<>>} \cup {<<r>> : r \in -1 .. MaxRecords}

NextEDF ==
  \/ ReadHeader
  \/ \E i \in SignalIndices, r \in RecordNumbers : ReadSignal(i, r)
  \/ \E r \in RecordNumbers : ReadAnnotations(r)
  \/ \E ref \in 1 .. 2 : MutateHeader(ref)

SpecEDF == InitEDF(EdfFiles \cup MarkedFiles) /\ [][NextEDF]_vars

\* The decoder run on files with an annotation channel.
NextTAL ==
  \/ ReadHeader
  \/ \E r \in RecordNumbers : ReadAnnotations(r)

SpecTAL == InitEDF(AnnotationFiles) /\ [][NextTAL]_vars

(***************************************************************************)
(* Properties of the decoder                                               *)
(***************************************************************************)
\* C1.  readHeader is memoized without aliasing: every header it hands out
\* is independently owned, so whatever the caller writes to the headers it
\* was handed, the header the decoder keeps (the one every later
\* readHeader, readSignal and readAnnotations call reads) stays equal to
\* the header parsed from the file.
C1_HeaderNeverAliased ==
  header # 0 => heap[header] = parseHeader(byteArray).value

\* A text that is a decimal number: an optional sign, digits, and an
\* optional fraction, between optional spaces.
IsDecimal(text) ==
  LET r == SignSplit(Trim(text))[2]
      k == DigitRun(r)
  IN  /\ k > 0
      /\ \/ Len(r) = k
         \/ /\ r[k + 1] = 46
            /\ Len(r) > k + 1
            /\ DigitRun(SubSeq(r, k + 2, Len(r))) = Len(r) - k - 1

AllNumbersDecimal(fd) ==
  /\ \A f \in GlobalNumeric : IsDecimal(fd[f])
  /\ \A i \in 1 .. Len(fd.signals) :
       \A f \in SignalNumeric : IsDecimal(fd.signals[i][f])

\* C4.  readHeader fails whenever a numeric header field is no decimal
\* number: it returns a header only for a file all of whose numeric fields
\* are decimal numbers.
C4_MalformedNumberFails ==
  (last.op = "readHeader" /\ last.ok) => AllNumbersDecimal(fixture)

IsDiscontinuous(fd) ==
  /\ Len(fd.reserved) >= 5
  /\ \A i \in 1 .. 5 : fd.reserved[i] = <<69, 68, 70, 43, 68>>[i]

\* C5.  When the reserved field starts with EDF+D, no header is ever
\* memoized or handed out, and every call (readHeader, readSignal,
\* readAnnotations, the first and every later one) fails with the
\* unsupported-recording error.
C5_DiscontinuousFailsFast ==
  IsDiscontinuous(fixture) =>
    /\ header = 0
    /\ heap = <<>>
    /\ held = {}
    /\ last.op # "none" =>
         ~last.ok /\ last.error = "discontinuous recordings not supported"

C5_Witness ==
  /\ IsDiscontinuous(fixture)
  /\ Len(fixture.reserved) > 5
  /\ last.op = "readAnnotations"
  /\ ~last.ok

\* C6.  readSignal with a signal index outside 0..signalCount-1, or with a
\* record number outside 0..dataRecords-1, fails instead of returning
\* samples (the counts are those of the header the decoder holds).
C6_OutOfRangeFails ==
  (/\ fixture.kind = "conformant"
   /\ last.op = "readSignal"
   /\ \/ last.signalIndex[1] \notin 0 .. Len(fixture.profile) - 1
      \/ /\ last.recordNumber # <<>>
         /\ last.recordNumber[1] \notin 0 .. last.dataRecords[1].n - 1)
  => ~last.ok

\* The layout of the data records as the format lays it down, from the
\* description of the file alone.
Stride(fd) == 2 * SumSeq(fd.profile)

Prefix(fd, i) == 2 * SumSeq(SubSeq(fd.profile, 1, i))

LittleEndian16(bytes, o) ==
  LET u == bytes[o + 1] + 256 * bytes[o + 2]
  IN  IF u >= 32768 THEN u - 65536 ELSE u

ExpectedSample(fd, i, rec, j) ==
  digitalToPhysical(
    Num(LittleEndian16(byteArray,
                       256 + 256 * Len(fd.profile) + rec * Stride(fd)
                       + Prefix(fd, i) + 2 * j)),
    heap[header].signals[i + 1])

\* The bytes readSignal reads for signal i over all records.
BytesRead(h, i) ==
  LET offs == signalOffsets(h, i, <<>>)
  IN  UNION {{offs[k].n, offs[k].n + 1} : k \in 1 .. Len(offs)}

AnnotationsRead ==
  /\ last.op = "readAnnotations"
  /\ last.recordNumber = <<>> \/ last.recordNumber[1] \in 0 .. fixture.records - 1

\* The records (1-based) such a call covers.
RecordsRead ==
  IF last.recordNumber = <<>>
  THEN [k \in 1 .. fixture.records |-> k]
  ELSE <<last.recordNumber[1] + 1>>

\* A segment that parses as a leading number: an optional sign, then a
\* digit.
ParsesAsNumber(seg) ==
  LET r == SignSplit(seg)[2] IN r # <<>> /\ r[1] \in 48 .. 57

\* The segments of the records read, in order.
SegmentsRead == Flatten([k \in 1 .. Len(RecordsRead) |-> fixture.contents[RecordsRead[k]]])

YieldsNoEvent(seg) ==
  \/ seg = <<>>
  \/ seg[1] = 43
  \/ seg[1] \in 48 .. 57
  \/ Len(seg) >= 2 /\ seg[1] = 45 /\ seg[2] \in 48 .. 57

TalEvents(tal) ==
  LET texts == SelectSeq(tal.texts, LAMBDA t : t # <<>>)
  IN  [i \in 1 .. Len(texts) |->
         [onset |-> tal.onset.value,
          duration |-> IF tal.duration = <<>>
                       THEN <<>>
                       ELSE <<tal.duration[1].value>>,
          annotation |-> Trim(texts[i])]]

\* C10.  Within one TAL every text segment that is no number, after the
\* onset (and duration), becomes exactly one event, with that TAL's onset
\* and duration (no duration when the TAL has none); no text is taken as an
\* onset and no onset is emitted as an event: the events returned are
\* exactly those of the TALs read, in order.
C10_TalEvents ==
  (fixture.kind = "tal" /\ AnnotationsRead) =>
    /\ last.ok
    /\ last.ret = Flatten([i \in 1 .. Len(SegmentsRead) |->
                             TalEvents(SegmentsRead[i])])

\* A record that holds only time-keeping TALs: an onset and no text but
\* the empty one.
TimeKeepingOnly(tals) ==
  \A i \in 1 .. Len(tals) :
    \A j \in 1 .. Len(tals[i].texts) : tals[i].texts[j] = <<>>

\* The events of record k (1-based): none for a record of time-keeping
\* TALs only, else its non-empty texts, each with the onset of its TAL.
RecordEvents(k) ==
  IF TimeKeepingOnly(fixture.contents[k])
  THEN <<>>
  ELSE Flatten([i \in 1 .. Len(fixture.contents[k]) |->
                  TalEvents(fixture.contents[k][i])])

\* C11.  readAnnotations over all records returns exactly the non-empty
\* text annotations, in record order, each with the onset of its TAL; a
\* record that holds only a time-keeping TAL contributes no event.
C11_TimeKeepingSilent ==
  (/\ fixture.kind = "tal"
   /\ last.op = "readAnnotations"
   /\ last.recordNumber = <<>>)
  => /\ last.ok
     /\ last.ret = Flatten([k \in 1 .. fixture.records |-> RecordEvents(k)])

\* No label of the file holds the annotation marker.
Unmarked ==
  \A i \in 1 .. Len(fixture.signals) :
     ~Includes(fixture.signals[i].label, AnnotationMarker)

FieldStart(signalCount, field, i) ==
  fieldOffset(signalCount, field[1], field[2], i)

FieldEnd(signalCount, field, i) ==
  FieldStart(signalCount, field, i) + (field[2] - field[1])

FieldBytes(signalCount, field, i) ==
  FieldStart(signalCount, field, i) .. FieldEnd(signalCount, field, i) - 1

\* The reads of the signal headers: every field of every signal.
FieldReads(signalCount) ==
  {<<f, i>> : f \in DOMAIN SignalFields, i \in 0 .. signalCount - 1}

\* C13.  Per-signal header fields are read column-major: field
\* (fieldStart, width) of signal i among N signals is read from the bytes
\* 256 + fieldStart*N + width*i up to, not including,
\* 256 + fieldStart*N + width*(i+1); over the ten fields and all i < N these
\* ranges are pairwise disjoint and together cover exactly 256 up to
\* 256 + 256*N.  N is the signal count of the header readHeader has just
\* read.
C13_ColumnMajor ==
  (last.op = "readHeader" /\ header # 0 /\ IsInt(heap[header].signalCount))
  => LET N == heap[header].signalCount.n
     IN  /\ \A r \in FieldReads(N) :
               LET fieldStart == SignalFields[r[1]][1]
                   width == SignalFields[r[1]][2] - fieldStart
               IN  FieldBytes(N, SignalFields[r[1]], r[2])
                     = 256 + fieldStart * N + width * r[2]
                       .. 256 + fieldStart * N + width * (r[2] + 1) - 1
         /\ \A r, q \in FieldReads(N) :
               r # q => \/ FieldEnd(N, SignalFields[r[1]], r[2])
                             <= FieldStart(N, SignalFields[q[1]], q[2])
                        \/ FieldEnd(N, SignalFields[q[1]], q[2])
                             <= FieldStart(N, SignalFields[r[1]], r[2])
         /\ UNION {FieldBytes(N, SignalFields[r[1]], r[2]) : r \in FieldReads(N)}
              = 256 .. 256 + 256 * N - 1

\* The header of a file of MaxSignals signals has been read.
C13_Witness ==
  /\ last.op = "readHeader"
  /\ header # 0
  /\ heap[header].signalCount = Num(MaxSignals)
  /\ Len(heap[header].signals) = MaxSignals
  /\ last.ok

(***************************************************************************)
(* digitalToPhysical on its own                                            *)
(***************************************************************************)
MaxDigital == 2

Digitals == -MaxDigital .. MaxDigital

\* Physical bounds as parseFloat delivers them from a header field: decimal
\* tenths, each rounded to the nearest representable number.
Physicals == {Round(Rat(k, 10)) : k \in {-3, -1, 0, 1, 2}}

\* The calibrations, those with an empty or reversed range included.
Calibrations ==
  [digitalMin : {Num(d) : d \in Digitals},
   digitalMax : {Num(d) : d \in Digitals},
   physicalMin : Physicals,
   physicalMax : Physicals]

InitD2P ==
  /\ calibration \in Calibrations
  /\ converted = <<>>
  /\ NoFile
  /\ NoEngine
  /\ NoOthers

\* One call digitalToPhysical(digital, signal); the latest two conversions
\* are kept, the latest first.
Convert(digital) ==
  /\ converted' =
       <<[digital |-> digital,
          physical |-> digitalToPhysical(Num(digital), calibration)]>>
       \o SubSeq(converted, 1, Min(1, Len(converted)))
  /\ UNCHANGED <<calibration, edfVars, iirVars, otherVars>>

NextD2P == \E digital \in Digitals : Convert(digital)

SpecD2P == InitD2P /\ [][NextD2P]_vars

(***************************************************************************)
(* Properties of digitalToPhysical                                         *)
(***************************************************************************)
ValidRanges ==
  /\ NumLt(calibration.digitalMin, calibration.digitalMax)
  /\ NumLt(calibration.physicalMin, calibration.physicalMax)

InDigitalRange(d) ==
  calibration.digitalMin.n <= d /\ d <= calibration.digitalMax.n

NumAbs(x) == IF x.nan THEN x ELSE Rat(Abs(x.n), x.d)

\* The affine map in exact arithmetic.
ExactPhysical(d) ==
  NumAdd(calibration.physicalMin,
         NumDiv(NumMul(NumSub(Num(d), calibration.digitalMin),
                       NumSub(calibration.physicalMax,
                              calibration.physicalMin)),
                NumSub(calibration.digitalMax, calibration.digitalMin)))

\* The physical midpoint as the program computes it.
PhysicalMidpoint ==
  Round(NumDiv(Round(NumAdd(calibration.physicalMin,
                            calibration.physicalMax)), Num(2)))

Monotone ==
  \A i, j \in 1 .. Len(converted) :
    (/\ InDigitalRange(converted[i].digital)
     /\ InDigitalRange(converted[j].digital)
     /\ converted[i].digital <= converted[j].digital)
    => NumLe(converted[i].physical, converted[j].physical)

\* C8 as stated.  With digitalMin < digitalMax and physicalMin <
\* physicalMax, digitalMin maps to physicalMin, digitalMax to physicalMax,
\* the digital midpoint to the physical midpoint, and d1 <= d2 implies
\* physical(d1) <= physical(d2).
C8_AffineExact ==
  ValidRanges =>
    /\ Monotone
    /\ \A i \in 1 .. Len(converted) :
         LET c == converted[i]
         IN  /\ c.digital = calibration.digitalMin.n
                  => c.physical = calibration.physicalMin
             /\ c.digital = calibration.digitalMax.n
                  => c.physical = calibration.physicalMax
             /\ 2 * c.digital
                    = calibration.digitalMin.n + calibration.digitalMax.n
                  => c.physical = PhysicalMidpoint

\* C8, amended.  With digitalMin < digitalMax and physicalMin <
\* physicalMax, digitalMin maps to physicalMin exactly, the map is
\* order-preserving over the digital range, and every value of the range
\* (digitalMax and the midpoint included) maps to the value of the affine
\* map up to rounding: within five units of roundoff (2^-Precision) of
\* |physicalMin| + |physicalMax|.
C8_AffineWithinRounding ==
  ValidRanges =>
    /\ Monotone
    /\ \A i \in 1 .. Len(converted) :
         LET c == converted[i]
         IN  /\ c.digital = calibration.digitalMin.n
                  => c.physical = calibration.physicalMin
             /\ InDigitalRange(c.digital)
                  => NumLe(NumMul(Num(Pow2(Precision)),
                                  NumAbs(NumSub(c.physical,
                                                ExactPhysical(c.digital)))),
                           NumMul(Num(5),
                                  NumAdd(NumAbs(calibration.physicalMin),
                                         NumAbs(calibration.physicalMax))))

C8_Witness ==
  /\ ValidRanges
  /\ Len(converted) = 2
  /\ converted[1].digital = calibration.digitalMax.n
  /\ converted[1].physical # calibration.physicalMax
  /\ converted[2].digital = calibration.digitalMin.n
  /\ converted[2].physical = calibration.physicalMin

(***************************************************************************)
(* IIRFilter: the filter engine                                            *)
(*                                                                         *)
(* Coefficients and samples are integers of small magnitude: on these      *)
(* every product and sum of runStage is exact in a double, so the          *)
(* arithmetic is integer arithmetic.                                       *)
(***************************************************************************)
\* One element of this.cf as the constructor builds it (lines 72-81) from a
\* FilterCoeffs stage; k is absent (<<>>) or given.
Stage(c) ==
  [b0 |-> c.b[1], b1 |-> c.b[2], b2 |-> c.b[3],
   a1 |-> c.a[1], a2 |-> c.a[2],
   k |-> IF c.k = <<>> THEN 1 ELSE c.k[1],
   z |-> <<0, 0>>]

\* new IIRFilter(filter): this.cf.
Construct(coeffs) == [i \in 1 .. Len(coeffs) |-> Stage(coeffs[i])]

\* runStage(s, input): the output and the stage with its delay state
\* shifted.
runStage(s, input) ==
  LET temp == input * s.k - s.a1 * s.z[1] - s.a2 * s.z[2]
      output == s.b0 * temp + s.b1 * s.z[1] + s.b2 * s.z[2]
  IN  [output |-> output, stage |-> [s EXCEPT !.z = <<temp, s.z[1]>>]]

RECURSIVE doStepFrom(_, _, _)
doStepFrom(out, coeffs, i) ==
  IF i > Len(coeffs)
  THEN [out |-> out, coeffs |-> coeffs]
  ELSE LET r == runStage(coeffs[i], out)
       IN  doStepFrom(r.output, [coeffs EXCEPT ![i] = r.stage], i + 1)

\* doStep(input, coeffs): the sample through every stage in turn.
doStep(input, coeffs) == doStepFrom(input, coeffs, 1)

\* The loops of runMultiFilter and runMultiFilterReverse from index i on,
\* in steps of dir.  With overwrite the output array is the input array,
\* so each sample is read from the array as written so far.
RECURSIVE runLoop(_, _, _, _, _, _)
runLoop(input, coeffs, output, overwrite, i, dir) ==
  IF i < 1 \/ i > Len(input)
  THEN [output |-> output, filter |-> coeffs]
  ELSE LET sample == IF overwrite THEN output[i] ELSE input[i]
           r == doStep(sample, coeffs)
       IN  runLoop(input, r.coeffs, [output EXCEPT ![i] = r.out], overwrite,
                   i + dir, dir)

\* const output = overwrite ? input : new Array(input.length); every
\* element of the new array is written before the array is returned.
outputArray(input, overwrite) ==
  IF overwrite THEN input ELSE [i \in 1 .. Len(input) |-> 0]

\* A runMultiFilter that takes the samples last to first.
runMultiFilterBackwards(input, coeffs, overwrite) ==
  runLoop(input, coeffs, outputArray(input, overwrite), overwrite,
          Len(input), -1)

runMultiFilter(input, coeffs, overwrite) ==
  runLoop(input, coeffs, outputArray(input, overwrite), overwrite, 1, 1)

runMultiFilterReverse(input, coeffs, overwrite) ==
  runLoop(input, coeffs, outputArray(input, overwrite), overwrite,
          Len(input), -1)

\* filtfilt(input, overwrite): the reverse pass runs on the same this.cf,
\* in the state the forward pass left it in.
filtfilt(input, coeffs, overwrite) ==
  LET forward == runMultiFilter(input, coeffs, overwrite)
  IN  runMultiFilterReverse(forward.output, forward.filter, TRUE)

\* The same loops on arrays that live on a heap (hp: reference -> array),
\* to tell which array a call writes and which one it returns.
\* An output array that is the input array whatever overwrite says.
outputRefInPlace(hp, inRef, overwrite) == [ref |-> inRef, arrays |-> hp]

\* const output = overwrite ? input : new Array(input.length).
outputRef(hp, inRef, overwrite) ==
  IF overwrite
  THEN [ref |-> inRef, arrays |-> hp]
  ELSE [ref |-> Len(hp) + 1,
        arrays |-> Append(hp, [i \in 1 .. Len(hp[inRef]) |-> 0])]

\* output[i] = doStep(input[i], filter) from index i on, in steps of dir.
RECURSIVE runLoopAt(_, _, _, _, _, _)
runLoopAt(hp, inRef, outRef, coeffs, i, dir) ==
  IF i < 1 \/ i > Len(hp[inRef])
  THEN [ref |-> outRef, arrays |-> hp, filter |-> coeffs]
  ELSE LET r == doStep(hp[inRef][i], coeffs)
       IN  runLoopAt([hp EXCEPT ![outRef][i] = r.out], inRef, outRef,
                     r.coeffs, i + dir, dir)

runMultiFilterAt(hp, inRef, coeffs, overwrite) ==
  LET o == outputRef(hp, inRef, overwrite)
  IN  runLoopAt(o.arrays, inRef, o.ref, coeffs, 1, 1)

runMultiFilterReverseAt(hp, inRef, coeffs, overwrite) ==
  LET o == outputRef(hp, inRef, overwrite)
  IN  runLoopAt(o.arrays, inRef, o.ref, coeffs, Len(hp[inRef]), -1)

\* filtfilt: the reverse pass overwrites the array the forward pass
\* returned.
filtfiltAt(hp, inRef, coeffs, overwrite) ==
  LET forward == runMultiFilterAt(hp, inRef, coeffs, overwrite)
  IN  runMultiFilterReverseAt(forward.arrays, forward.ref, forward.filter,
                              TRUE)

\* A faulty reinit: only the newest delay element of each stage is zeroed.
reinitNewestOnly(coeffs) ==
  [i \in 1 .. Len(coeffs) |-> [coeffs[i] EXCEPT !.z = <<0, coeffs[i].z[2]>>]]

\* reinit(): stage.z = [0, 0] for every stage.
reinit(coeffs) ==
  [i \in 1 .. Len(coeffs) |-> [coeffs[i] EXCEPT !.z = <<0, 0>>]]

(***************************************************************************)
(* The engine in use                                                       *)
(***************************************************************************)
MaxInput == 2

MaxDelay == 3

Samples == {0, 1}

Inputs == UNION {[1 .. n -> Samples] : n \in 0 .. MaxInput}

Biquad(b, a, k) == [b |-> b, a |-> a, k |-> k]

\* The cascades the engines are built from: a two-tap sum, an accumulator
\* (feedback on the newest delay element), and two stages of which the
\* second feeds back the older delay element.
Filters ==
  {<<Biquad(<<1, 1, 0>>, <<0, 0>>, <<>>)>>,
   <<Biquad(<<1, 0, 0>>, <<-1, 0>>, <<>>)>>,
   <<Biquad(<<1, 0, -1>>, <<0, 0>>, <<2>>),
     Biquad(<<1, 1, 0>>, <<0, 1>>, <<>>)>>}

AllZero(coeffs) == \A i \in 1 .. Len(coeffs) : coeffs[i].z = <<0, 0>>

\* The delay state stays within the magnitudes explored.
WithinDelay(coeffs) ==
  \A i \in 1 .. Len(coeffs) :
    Abs(coeffs[i].z[1]) <= MaxDelay /\ Abs(coeffs[i].z[2]) <= MaxDelay

NoResult ==
  [op |-> "none", input |-> <<>>, overwrite |-> FALSE, output |-> <<>>,
   array |-> <<>>, same |-> FALSE, before |-> <<>>, previous |-> "none",
   wasZero |-> TRUE]

\* The record of a call: its arguments, what it returned, the caller's
\* input array after it, whether the array returned is the caller's input
\* array (set by the calls that take an array), the stages it started
\* from, and the call before it (its name, and whether that one started
\* from all-zero delays).
Outcome(op, input, overwrite, output, array) ==
  [op |-> op, input |-> input, overwrite |-> overwrite, output |-> output,
   array |-> array, same |-> FALSE, before |-> cf, previous |-> result.op,
   wasZero |-> IF result.op = "none" THEN TRUE ELSE AllZero(result.before)]

InitIIR ==
  /\ filter \in Filters
  /\ cf = Construct(filter)
  /\ result = NoResult
  /\ NoFile
  /\ NoConversion
  /\ NoOthers

\* singleStep(input), lines 195-197.
SingleStep(input) ==
  LET r == doStep(input, cf)
  IN  /\ WithinDelay(r.coeffs)
      /\ cf' = r.coeffs
      /\ result' = Outcome("singleStep", <<input>>, FALSE, <<r.out>>,
                           <<input>>)
      /\ UNCHANGED <<filter, edfVars, d2pVars, otherVars>>

\* multiStep(input, overwrite), lines 199-201.
MultiStep(input, overwrite) ==
  LET r == runMultiFilter(input, cf, overwrite)
      h == runMultiFilterAt(<<input>>, 1, cf, overwrite)
  IN  /\ WithinDelay(r.filter)
      /\ cf' = r.filter
      /\ result' = [Outcome("multiStep", input, overwrite, r.output,
                            h.arrays[1])
                      EXCEPT !.same = (h.ref = 1)]
      /\ UNCHANGED <<filter, edfVars, d2pVars, otherVars>>

\* filtfilt(input, overwrite), lines 203-210.
Filtfilt(input, overwrite) ==
  LET r == filtfilt(input, cf, overwrite)
      h == filtfiltAt(<<input>>, 1, cf, overwrite)
  IN  /\ WithinDelay(r.filter)
      /\ cf' = r.filter
      /\ result' = [Outcome("filtfilt", input, overwrite, r.output,
                            h.arrays[1])
                      EXCEPT !.same = (h.ref = 1)]
      /\ UNCHANGED <<filter, edfVars, d2pVars, otherVars>>

\* reinit(), lines 240-242.
Reinit ==
  /\ cf' = reinit(cf)
  /\ result' = Outcome("reinit", <<>>, FALSE, <<>>, <<>>)
  /\ UNCHANGED <<filter, edfVars, d2pVars, otherVars>>

NextIIR ==
  \/ \E input \in Samples : SingleStep(input)
  \/ \E input \in Inputs, overwrite \in BOOLEAN : MultiStep(input, overwrite)
  \/ \E input \in Inputs, overwrite \in BOOLEAN : Filtfilt(input, overwrite)
  \/ Reinit

SpecIIR == InitIIR /\ [][NextIIR]_vars

(***************************************************************************)
(* Properties of the engine                                                *)
(***************************************************************************)
\* C2.  filtfilt returns the reverse pass over the forward result started
\* from all-zero delays: its output is that of the forward pass from the
\* engine's state followed by a reverse pass on a fresh state, whatever
\* state the forward pass left behind.
C2_ReversePassFresh ==
  result.op = "filtfilt" =>
    result.output
      = runMultiFilterReverse(
          runMultiFilter(result.input, result.before, FALSE).output,
          Construct(filter), FALSE).output

\* C3.  reinit leaves every stage with zero delays and its coefficients as
\* constructed, and a multiStep(x) that follows a reinit returns what
\* multiStep(x) returns on a freshly constructed engine with the same
\* coefficients, whatever calls came before.
C3_ReinitAsFresh ==
  /\ result.op = "reinit" => cf = Construct(filter)
  /\ (result.op = "multiStep" /\ result.previous = "reinit") =>
       /\ result.before = Construct(filter)
       /\ result.output
            = runMultiFilter(result.input, Construct(filter), FALSE).output

C3_Witness ==
  /\ result.op = "multiStep"
  /\ result.previous = "reinit"
  /\ ~result.wasZero
  /\ Len(result.input) = MaxInput
  /\ \E i \in 1 .. Len(result.output) : result.output[i] # result.input[i]

\* One biquad stage as the recursion is written down: the output and the
\* delay pair after it.
BiquadStep(s, in) ==
  LET temp == s.k * in - s.a1 * s.z[1] - s.a2 * s.z[2]
  IN  [out |-> s.b0 * temp + s.b1 * s.z[1] + s.b2 * s.z[2],
       z |-> <<temp, s.z[1]>>]

\* The sample through stages i, i+1, ... in turn, each stage's output the
\* next stage's input.
RECURSIVE LeftToRight(_, _, _)
LeftToRight(in, coeffs, i) ==
  IF i > Len(coeffs)
  THEN [out |-> in, coeffs |-> coeffs]
  ELSE LET r == BiquadStep(coeffs[i], in)
       IN  LeftToRight(r.out, [coeffs EXCEPT ![i].z = r.z], i + 1)

\* singleStep called on each sample of input in sequence order, from the
\* stages coeffs: the outputs and the stages after the last call.
RECURSIVE SingleSteps(_, _, _)
SingleSteps(input, coeffs, outputs) ==
  IF input = <<>>
  THEN [output |-> outputs, filter |-> coeffs]
  ELSE LET r == doStep(Head(input), coeffs)
       IN  SingleSteps(Tail(input), r.coeffs, Append(outputs, r.out))

\* C16.  multiStep(samples) gives the outputs and leaves the delay state of
\* singleStep called on each sample in sequence order; singleStep passes
\* the sample through the stages left to right, each stage computing
\* temp = k*in - a1*z0 - a2*z1, out = b0*temp + b1*z0 + b2*z1, and then
\* z1 := z0, z0 := temp.
C16_MultiStepIsSingleSteps ==
  /\ result.op = "multiStep" =>
       /\ result.output = SingleSteps(result.input, result.before, <<>>).output
       /\ cf = SingleSteps(result.input, result.before, <<>>).filter
  /\ result.op = "singleStep" =>
       /\ result.output = <<LeftToRight(result.input[1], result.before, 1).out>>
       /\ cf = LeftToRight(result.input[1], result.before, 1).coeffs

\* multiStep has run over a full-length input on a two-stage engine that
\* carried delay state, and its samples were not all alike.
C16_Witness ==
  /\ result.op = "multiStep"
  /\ Len(result.input) = MaxInput
  /\ Len(cf) = 2
  /\ ~AllZero(result.before)
  /\ result.input[1] # result.input[MaxInput]
  /\ result.output # result.input

\* C19.  multiStep and filtfilt with overwrite = false leave every element
\* of the input array as it was and return another array of the same
\* length; with overwrite = true the array returned is the input array
\* itself, and it holds the outputs.
C19_InputKeptUnlessOverwrite ==
  result.op \in {"multiStep", "filtfilt"} =>
    /\ Len(result.output) = Len(result.input)
    /\ ~result.overwrite => result.array = result.input /\ ~result.same
    /\ result.overwrite => result.same /\ result.array = result.output

\* filtfilt has run without overwrite on a full-length input and returned
\* other values than it was given.
C19_Witness ==
  /\ result.op = "filtfilt"
  /\ ~result.overwrite
  /\ Len(result.input) = MaxInput
  /\ result.output # result.input
  /\ result.array = result.input
  /\ ~result.same

(***************************************************************************)
(* The filter designer: calcCoeffs and the IIRCoeffs formulas              *)
(*                                                                         *)
(* A coefficient is kept as the name of the formula that computes it, the  *)
(* stage it belongs to and its place in the section; its numeric value is  *)
(* not computed.  A parameter is "undefined" (omitted), "zero" or "number" *)
(* (any other number): the designer tests parameters for truthiness only.  *)
(***************************************************************************)
Coefficient(method, i, name) == [of |-> method, stage |-> i, name |-> name]

One == [of |-> "constant", stage |-> 0, name |-> "1"]

Truthy(v) == v = "number"

Returned(value) == [ok |-> TRUE, error |-> "", value |-> value]

Failed(error) == [ok |-> FALSE, error |-> error, value |-> <<>>]

\* An initCoeffs that leaves the delay state out.
initCoeffsNoState == [a |-> <<>>, b |-> <<>>, z |-> <<>>]

\* initCoeffs(), IIRCoeffs.ts lines 91-97.
initCoeffs == [a |-> <<>>, b |-> <<>>, z |-> <<0, 0>>]

\* coeffs.a.push(...) and coeffs.b.push(...) of all the listed names.
Push(coeffs, field, method, i, names) ==
  [coeffs EXCEPT ![field] =
     @ \o [j \in 1 .. Len(names) |-> Coefficient(method, i, names[j])]]

\* coeffs.k = ... and coeffs.a0 = ...: the field is added or overwritten.
Assign(coeffs, field, v) == (field :> v) @@ coeffs

\* preCalc(params, coeffs), lines 59-76.
preCalc(fp, coeffs, method, i) ==
  IF ~Truthy(fp.Q) /\ ~Truthy(fp.BW)
  THEN Failed("Either Q or BW parameter is required")
  ELSE Returned(Assign(Assign(Push(coeffs, "a", method, i, <<"a1", "a2">>),
                              "a0", Coefficient(method, i, "a0")),
                       "k", One))

\* preCalcGain(params), lines 78-89: it builds no coefficient.
preCalcGain(fp) ==
  IF ~Truthy(fp.Q)
  THEN Failed("Q parameter is required for preCalcGain")
  ELSE Returned(<<>>)

\* if (params.BW) delete params.BW.
DeleteBW(fp) == IF Truthy(fp.BW) THEN [fp EXCEPT !.BW = "undefined"] ELSE fp

\* IIRCoeffs.lowpassMZ, lines 101-130.
lowpassMZ(fp, i) ==
  IF ~Truthy(fp.as) \/ ~Truthy(fp.bs)
  THEN Failed("as and bs parameters are required for lowpassMZ")
  ELSE LET c1 == Assign(initCoeffs, "a0", One)
           c2 == Push(c1, "a", "lowpassMZ", i, <<"a1", "a2">>)
           c3 == IF ~fp.preGain
                 THEN Assign(Push(c2, "b", "lowpassMZ", i, <<"b0">>), "k", One)
                 ELSE Assign([c2 EXCEPT !.b = Append(@, One)],
                             "k", Coefficient("lowpassMZ", i, "k"))
       IN  Returned([c3 EXCEPT !.b = @ \o <<Coefficient("zero", i, "b1"),
                                             Coefficient("zero", i, "b2")>>])

\* IIRCoeffs.lowpassBT and highpassBT, lines 133-171.
BesselThomson(method, i) ==
  LET c1 == Assign(initCoeffs, "k", One)
      c2 == Assign(c1, "a0", Coefficient(method, i, "a0"))
      c3 == Push(c2, "b", method, i, <<"b0", "b1", "b2">>)
  IN  Returned(Push(c3, "a", method, i, <<"a1", "a2">>))

\* IIRCoeffs.lowpass and highpass, lines 178-197: k depends on preGain.
PassFilter(method, fp, i) ==
  LET p == preCalc(DeleteBW(fp), initCoeffs, method, i)
  IN  IF ~p.ok
      THEN p
      ELSE Returned(Push(Assign(p.value, "k",
                                IF fp.preGain
                                THEN Coefficient(method, i, "k")
                                ELSE One),
                         "b", method, i, <<"b0", "b1", "b2">>))

\* IIRCoeffs.allpass, bandpass and bandstop, lines 200-244.
BandFilter(method, fp, i) ==
  LET p == preCalc(fp, initCoeffs, method, i)
  IN  IF ~p.ok
      THEN p
      ELSE Returned(Push(Assign(p.value, "k", One),
                         "b", method, i, <<"b0", "b1", "b2">>))

\* IIRCoeffs.peak, lowshelf and highshelf, lines 247-302; the shelves delete
\* BW first, which preCalcGain does not read.
GainFilter(method, fp, i) ==
  LET p == preCalcGain(IF method = "peak" THEN fp ELSE DeleteBW(fp))
      c1 == Assign(initCoeffs, "k", One)
      c2 == Assign(c1, "a0", Coefficient(method, i, "a0"))
      c3 == Push(c2, "a", method, i, <<"a1", "a2">>)
  IN  IF ~p.ok
      THEN p
      ELSE Returned(Push(c3, "b", method, i, <<"b0", "b1", "b2">>))

\* The switch of IIRCascade.ts lines 115-151.
Dispatch(behavior, fp, i) ==
  CASE behavior \in {"lowpass", "highpass"} -> PassFilter(behavior, fp, i)
    [] behavior \in {"bandpass", "bandstop", "allpass"} ->
         BandFilter(behavior, fp, i)
    [] behavior \in {"peak", "lowshelf", "highshelf"} ->
         GainFilter(behavior, fp, i)
    [] behavior = "lowpassMZ" -> lowpassMZ(fp, i)
    [] behavior \in {"highpassBT", "lowpassBT"} -> BesselThomson(behavior, i)
    [] OTHER -> Failed("Unknown filter behavior")

\* The clamp of line 62.
MaxStages == 12

\* Math.min(params.order ?? 0, 12).
ClampedOrder(p) == Min(IF p.order = <<>> THEN 0 ELSE p.order[1], MaxStages)

\* One pass of the loop body, lines 64-153, for stage i.  p.lookup is what
\* the tables hold for the call's characteristic and order: "undefined"
\* where they hold no entry (reading it raises a TypeError), else "zero" or
\* "number".
Section(p, i) ==
  IF p.transform = "matchedZ"
  THEN IF p.characteristic = "undefined" \/ p.lookup = "undefined"
       THEN Failed("TypeError")
       ELSE lowpassMZ([Q |-> "undefined", BW |-> "undefined",
                       preGain |-> p.preGain,
                       as |-> p.lookup, bs |-> p.lookup], i)
  ELSE IF p.characteristic = "undefined"
  THEN Failed("Characteristic is required")
  ELSE IF p.characteristic # "butterworth" /\ p.lookup = "undefined"
  THEN Failed("TypeError")
  ELSE Dispatch(p.behavior,
                [Q |-> IF p.characteristic = "butterworth"
                       THEN "number"
                       ELSE p.lookup,
                 BW |-> IF p.BW = "undefined" THEN "zero" ELSE p.BW,
                 preGain |-> p.preGain,
                 as |-> "undefined", bs |-> "undefined"],
                i)

RECURSIVE Stages(_, _, _)
Stages(p, i, filters) ==
  IF i < ClampedOrder(p)
  THEN LET r == Section(p, i)
       IN  IF r.ok THEN Stages(p, i + 1, Append(filters, r.value)) ELSE r
  ELSE Returned(filters)

\* calcCoeffs(params), IIRCascade.ts lines 59-154.
calcCoeffs(p) == Stages(p, 0, <<>>)

\* The calls made: the order omitted, not positive, small, at the clamp and
\* past it; every behavior and one that is none of them; the characteristic
\* omitted, Butterworth and tabulated ones.
Orders == {<<>>, <<-1>>, <<0>>, <<1>>, <<2>>, <<MaxStages>>, <<MaxStages + 1>>}

Behaviors ==
  {"lowpass", "highpass", "bandpass", "bandstop", "allpass", "peak",
   "lowshelf", "highshelf", "lowpassMZ", "highpassBT", "lowpassBT", "notch"}

DesignCalls ==
  [order : Orders,
   transform : {"undefined", "matchedZ", "bilinear"},
   behavior : Behaviors,
   characteristic : {"undefined", "butterworth", "bessel", "tschebyscheff1"},
   lookup : {"undefined", "zero", "number"},
   BW : {"undefined", "zero", "number"},
   preGain : BOOLEAN]

InitDesign ==
  /\ params \in DesignCalls
  /\ designed = <<>>
  /\ NoFile
  /\ NoConversion
  /\ NoEngine
  /\ NoTwin
  /\ NoResponse
  /\ NoResample
  /\ NoLater

\* The call calcCoeffs(params).
Design ==
  /\ designed = <<>>
  /\ designed' = calcCoeffs(params)
  /\ UNCHANGED <<params, edfVars, d2pVars, iirVars, twinVars, respVars,
               resampleVars,
               laterVars>>

NextDesign == Design

SpecDesign == InitDesign /\ [][NextDesign]_vars

\* C14.  A design call on the standard path (transform is not matchedZ)
\* that omits the characteristic fails with the required-parameter error,
\* whatever the other parameters, the order included.
C14_CharacteristicRequired ==
  (/\ designed # <<>>
   /\ params.transform # "matchedZ"
   /\ params.characteristic = "undefined")
  => /\ ~designed.ok
     /\ designed.error = "Characteristic is required"

\* A section as the engine expects it: three b, two a, a gain, zero delays.
IsBiquad(c) ==
  /\ Len(c.b) = 3
  /\ Len(c.a) = 2
  /\ "k" \in DOMAIN c
  /\ c.z = <<0, 0>>

\* Every coefficient of the section was computed for stage i.
OfStage(c, i) ==
  \A x \in {c.a[1], c.a[2], c.b[1]} : x # One => x.stage = i

\* C15.  A design call that succeeds returns min(order, 12) sections (none
\* when the order is omitted or not positive), the section at place i
\* computed for stage i, each with three b coefficients, two a
\* coefficients, a gain k and delay state [0, 0].
C15_CascadeShape ==
  (designed # <<>> /\ designed.ok)
  => LET n == IF params.order = <<>> THEN 0
              ELSE Max(0, Min(params.order[1], 12))
     IN  /\ Len(designed.value) = n
         /\ \A i \in 0 .. n - 1 :
              IsBiquad(designed.value[i + 1]) /\ OfStage(designed.value[i + 1], i)

\* A design past the clamp has succeeded.
C15_Witness ==
  /\ designed # <<>>
  /\ params.order = <<MaxStages + 1>>
  /\ designed.ok
  /\ Len(designed.value) = MaxStages

(***************************************************************************)
(* Two engines built from one coefficient list                             *)
(*                                                                         *)
(* Delay pairs are arrays on a heap (store), named by reference: runStage  *)
(* writes into the array stage.z refers to.  The coefficient list holds    *)
(* its own z arrays (FilterCoeffs.z); the constructor gives every stage a  *)
(* new one.                                                                *)
(***************************************************************************)
\* A stage that takes over the z array of the coefficient it is built from.
StageAtShared(c, ref) == [Stage(c) EXCEPT !.z = c.z]

\* The stage pushed by the constructor, lines 73-81: z is a new array, at
\* reference ref.
StageAt(c, ref) == [Stage(c) EXCEPT !.z = ref]

\* new IIRFilter(list) on the heap hp: the stages and the heap after.
ConstructAt(list, hp) ==
  [cf |-> [i \in 1 .. Len(list) |-> StageAt(list[i], Len(hp) + i)],
   store |-> hp \o [i \in 1 .. Len(list) |-> <<0, 0>>]]

\* runStage(s, input) on the heap: s.z[1] = s.z[0]; s.z[0] = temp.
runStageAt(s, input, hp) ==
  LET r == runStage([s EXCEPT !.z = hp[s.z]], input)
  IN  [output |-> r.output, store |-> [hp EXCEPT ![s.z] = r.stage.z]]

\* doStep(input, coeffs) on the heap, from stage i on.
RECURSIVE doStepAt(_, _, _, _)
doStepAt(out, coeffs, hp, i) ==
  IF i > Len(coeffs)
  THEN [out |-> out, store |-> hp]
  ELSE LET r == runStageAt(coeffs[i], out, hp)
       IN  doStepAt(r.output, coeffs, r.store, i + 1)

\* runMultiFilter(input, this.cf, doStep, false) on the heap, from sample
\* i on.
RECURSIVE multiStepAt(_, _, _, _, _)
multiStepAt(input, coeffs, hp, output, i) ==
  IF i > Len(input)
  THEN [output |-> output, store |-> hp]
  ELSE LET r == doStepAt(input[i], coeffs, hp, 1)
       IN  multiStepAt(input, coeffs, r.store, Append(output, r.out), i + 1)

\* The samples one engine is fed in all.
MaxFed == 3

\* The coefficient list with its z arrays at the references 1, 2, ...
Listed(coeffs) ==
  [i \in 1 .. Len(coeffs) |->
     [b |-> coeffs[i].b, a |-> coeffs[i].a, k |-> coeffs[i].k, z |-> i]]

\* The last calls' engines, the latest last.
Turn(e) == SubSeq(turns \o <<e>>, Max(1, Len(turns) - 1), Len(turns) + 1)

\* const list = ...; new IIRFilter(list); new IIRFilter(list).
InitTwin ==
  /\ \E coeffs \in Filters :
       LET first == ConstructAt(Listed(coeffs),
                                [i \in 1 .. Len(coeffs) |-> <<0, 0>>])
           second == ConstructAt(Listed(coeffs), first.store)
       IN  /\ shared = Listed(coeffs)
           /\ engines = <<first.cf, second.cf>>
           /\ store = second.store
  /\ fed = <<<<>>, <<>>>>
  /\ got = <<<<>>, <<>>>>
  /\ turns = <<>>
  /\ analysed = <<>>
  /\ NoFile
  /\ NoConversion
  /\ NoEngine
  /\ NoDesign
  /\ NoResponse
  /\ NoResample
  /\ NoLater

\* engines[e].multiStep(input).
MultiStepOn(e, input) ==
  LET r == multiStepAt(input, engines[e], store, <<>>, 1)
  IN  /\ Len(fed[e]) + Len(input) <= MaxFed
      /\ \A ref \in 1 .. Len(r.store) :
           Abs(r.store[ref][1]) <= MaxDelay /\ Abs(r.store[ref][2]) <= MaxDelay
      /\ store' = r.store
      /\ fed' = [fed EXCEPT ![e] = @ \o input]
      /\ got' = [got EXCEPT ![e] = @ \o r.output]
      /\ turns' = Turn(e)
      /\ UNCHANGED <<shared, engines, analysed, edfVars, d2pVars, iirVars,
                     designVars, respVars, resampleVars, laterVars>>

\* engines[e].singleStep(input).
SingleStepOn(e, input) ==
  LET r == doStepAt(input, engines[e], store, 1)
  IN  /\ Len(fed[e]) < MaxFed
      /\ \A ref \in 1 .. Len(r.store) :
           Abs(r.store[ref][1]) <= MaxDelay /\ Abs(r.store[ref][2]) <= MaxDelay
      /\ store' = r.store
      /\ fed' = [fed EXCEPT ![e] = Append(@, input)]
      /\ got' = [got EXCEPT ![e] = Append(@, r.out)]
      /\ turns' = Turn(e)
      /\ UNCHANGED <<shared, engines, analysed, edfVars, d2pVars, iirVars,
                     designVars, respVars, resampleVars, laterVars>>

NextTwin ==
  \/ \E e \in 1 .. 2, input \in Inputs \ {<<>>} : MultiStepOn(e, input)
  \/ \E e \in 1 .. 2, input \in Samples : SingleStepOn(e, input)

SpecTwin == InitTwin /\ [][NextTwin]_vars

\* What an engine built from the list returns, run alone, for one multiStep
\* over the samples.
Alone(samples) ==
  multiStepAt(samples,
              ConstructAt(shared, [i \in 1 .. Len(shared) |-> <<0, 0>>]).cf,
              [i \in 1 .. 2 * Len(shared) |-> <<0, 0>>], <<>>, 1).output

\* C17.  Delay state persists across the step calls on one engine and is
\* private to it: the outputs of the calls on an engine, one after the
\* other, are the outputs of one multiStep over all its samples on an
\* engine run alone, whatever calls were made on the other engine in
\* between; and no delay array belongs to both engines.
C17_PrivateDelayState ==
  /\ \A e \in 1 .. 2 : got[e] = Alone(fed[e])
  /\ \A i \in 1 .. Len(engines[1]), j \in 1 .. Len(engines[2]) :
       engines[1][i].z # engines[2][j].z

\* The first engine was stepped, then the second, then the first again,
\* and the first carried delay state into its later call.
C17_Witness ==
  /\ turns = <<1, 2, 1>>
  /\ Len(fed[1]) = MaxFed
  /\ fed[2] # <<>>
  /\ got[1] # got[2]
  /\ \E i \in 1 .. Len(engines[1]) : store[engines[1][i].z] # <<0, 0>>

(***************************************************************************)
(* The frequency response of an engine                                     *)
(*                                                                         *)
(* Numbers are floating point here: every operation rounds its exact       *)
(* result to Precision bits.  Math.hypot is taken as correctly rounded,    *)
(* and Math.cos and Math.sin as the rounded true values at the eighths of  *)
(* a turn.  The phase and the dB magnitude are not computed.               *)
(***************************************************************************)
FAdd(x, y) == Round(NumAdd(x, y))

FSub(x, y) == Round(NumSub(x, y))

FMul(x, y) == Round(NumMul(x, y))

FDiv(x, y) == Round(NumDiv(x, y))

RECURSIVE IntPow(_, _)
IntPow(b, e) == IF e <= 0 THEN 1 ELSE b * IntPow(b, e - 1)

\* The power of two s that brings the square root of x (positive) into
\* 2^(Precision-1) * s up to, not including, 2^Precision * s.
RECURSIVE SqrtScale(_, _)
SqrtScale(x, s) ==
  IF NumLt(x, NumMul(Num(IntPow(4, Precision - 1)), NumMul(s, s)))
  THEN SqrtScale(x, NumDiv(s, Num(2)))
  ELSE IF NumLe(NumMul(Num(IntPow(4, Precision)), NumMul(s, s)), x)
  THEN SqrtScale(x, NumMul(s, Num(2)))
  ELSE s

\* The representable number nearest to the square root of x (not negative).
RoundedSqrt(x) ==
  IF x.n = 0
  THEN x
  ELSE LET s == SqrtScale(x, Num(1))
           Square(k) == NumMul(Rat(k * k, 4), NumMul(s, s))
           m == CHOOSE k \in Pow2(Precision - 1) .. Pow2(Precision) - 1 :
                  NumLe(Square(2 * k), x) /\ NumLt(x, Square(2 * k + 2))
           up == \/ NumLt(Square(2 * m + 1), x)
                 \/ (Square(2 * m + 1) = x /\ m % 2 = 1)
       IN  NumMul(Num(IF up THEN m + 1 ELSE m), s)

\* new Complex(re, im), part_004 lines 120-124.
Complex(re, im) == [re |-> re, im |-> im]

\* Complex.add, mul, div and magnitude, part_004 lines 133-165.
ComplexAdd(x, other) == Complex(FAdd(x.re, other.re), FAdd(x.im, other.im))

ComplexMul(x, other) ==
  Complex(FSub(FMul(x.re, other.re), FMul(x.im, other.im)),
          FAdd(FMul(x.re, other.im), FMul(x.im, other.re)))

ComplexDiv(x, other) ==
  LET denom == FAdd(FMul(other.re, other.re), FMul(other.im, other.im))
  IN  Complex(FDiv(FAdd(FMul(x.re, other.re), FMul(x.im, other.im)), denom),
              FDiv(FSub(FMul(x.im, other.re), FMul(x.re, other.im)), denom))

Magnitude(x) == RoundedSqrt(NumAdd(NumMul(x.re, x.re), NumMul(x.im, x.im)))

\* Math.cos and Math.sin of an angle of e eighths of a turn, e in -4 .. 0.
Cosine(e) ==
  CASE e = 0 -> Num(1)
    [] e = -1 -> RoundedSqrt(Rat(1, 2))
    [] e = -2 -> Num(0)
    [] e = -3 -> NumSub(Num(0), RoundedSqrt(Rat(1, 2)))
    [] e = -4 -> Num(-1)

Sine(e) ==
  CASE e = 0 -> Num(0)
    [] e = -1 -> NumSub(Num(0), RoundedSqrt(Rat(1, 2)))
    [] e = -2 -> Num(-1)
    [] e = -3 -> NumSub(Num(0), RoundedSqrt(Rat(1, 2)))
    [] e = -4 -> Num(0)

\* The engine's stage with its coefficients as Complex numbers (lines
\* 73-79).
ComplexStage(s) ==
  [b0 |-> Complex(Num(s.b0), Num(0)), b1 |-> Complex(Num(s.b1), Num(0)),
   b2 |-> Complex(Num(s.b2), Num(0)), a1 |-> Complex(Num(s.a1), Num(0)),
   a2 |-> Complex(Num(s.a2), Num(0)), k |-> Complex(Num(s.k), Num(0))]

\* biquadResponse(params, s), lines 104-124: the magnitude.  The angle
\* -2*pi*Fr/Fs is -8*Fr/Fs eighths of a turn.
biquadResponse(p, s) ==
  LET c == ComplexStage(s)
      e == (-8 * p.Fr) \div p.Fs
      z == Complex(Cosine(e), Sine(e))
      numerator ==
        ComplexMul(c.k,
                   ComplexAdd(c.b0,
                              ComplexMul(z, ComplexAdd(c.b1,
                                                       ComplexMul(c.b2, z)))))
      denominator ==
        ComplexAdd(Complex(Num(1), Num(0)),
                   ComplexMul(z, ComplexAdd(c.a1, ComplexMul(c.a2, z))))
  IN  [magnitude |-> Magnitude(ComplexDiv(numerator, denominator))]

\* A calcResponse that keeps the magnitude of the last stage only.
RECURSIVE calcResponseLast(_, _, _, _)
calcResponseLast(p, coeffs, magnitude, i) ==
  IF i > Len(coeffs)
  THEN [magnitude |-> magnitude]
  ELSE calcResponseLast(p, coeffs, biquadResponse(p, coeffs[i]).magnitude,
                        i + 1)

\* calcResponse(params), lines 126-140, from stage i on: magnitude *=
\* r.magnitude.
RECURSIVE calcResponse(_, _, _, _)
calcResponse(p, coeffs, magnitude, i) ==
  IF i > Len(coeffs)
  THEN [magnitude |-> magnitude]
  ELSE calcResponse(p, coeffs,
                    FMul(magnitude, biquadResponse(p, coeffs[i]).magnitude),
                    i + 1)

\* responsePoint(params), lines 223-225.
responsePoint(p, coeffs) == calcResponse(p, coeffs, Num(1), 1)

\* The cascades asked: three gains; a differencer with a gain before a
\* stage that feeds back its older delay element; and a two-tap sum, a
\* stage that feeds back its newest delay element, and a gain.  None has a
\* pole at a frequency asked.
ResponseCascades ==
  {<<Biquad(<<3, 0, 0>>, <<0, 0>>, <<>>),
     Biquad(<<5, 0, 0>>, <<0, 0>>, <<>>),
     Biquad(<<7, 0, 0>>, <<0, 0>>, <<>>)>>,
   <<Biquad(<<1, 0, -1>>, <<0, 0>>, <<2>>),
     Biquad(<<1, 1, 0>>, <<0, 2>>, <<>>)>>,
   <<Biquad(<<1, 1, 0>>, <<0, 0>>, <<>>),
     Biquad(<<1, 0, 0>>, <<-2, 0>>, <<>>),
     Biquad(<<3, 0, 0>>, <<0, 0>>, <<>>)>>}

\* The frequencies asked: the eighths of the sample rate up to one half.
ResponseParams == {[Fs |-> 8, Fr |-> k] : k \in 0 .. 4}

\* The inputs filtered: up to one sample more than the engine's own runs.
ResponseInputs == UNION {[1 .. n -> {-1, 0, 1}] : n \in 0 .. MaxInput + 1}

InitResponse ==
  /\ cascade \in ResponseCascades
  /\ response = <<>>
  /\ NoFile
  /\ NoConversion
  /\ NoEngine
  /\ NoDesign
  /\ NoTwin
  /\ NoResample
  /\ NoLater

\* new IIRFilter(cascade).responsePoint(p).
ResponsePoint(p) ==
  /\ response' = [op |-> "responsePoint", params |-> p, input |-> <<>>,
                  magnitude |-> responsePoint(p, Construct(cascade)).magnitude,
                  output |-> <<>>]
  /\ UNCHANGED <<cascade, edfVars, d2pVars, iirVars, designVars, twinVars,
                 resampleVars,
                 laterVars>>

\* new IIRFilter(cascade).multiStep(input): the engine starts from zero
\* delays.
MultiStepFresh(input) ==
  /\ response' = [op |-> "multiStep", params |-> <<>>, input |-> input,
                  magnitude |-> Num(0),
                  output |->
                    runMultiFilter(input, Construct(cascade), FALSE).output]
  /\ UNCHANGED <<cascade, edfVars, d2pVars, iirVars, designVars, twinVars,
                 resampleVars,
                 laterVars>>

NextResponse ==
  \/ \E p \in ResponseParams : ResponsePoint(p)
  \/ \E input \in ResponseInputs : MultiStepFresh(input)

SpecResponse == InitResponse /\ [][NextResponse]_vars

\* The orders the stages of the cascade can be put in.
Reorderings ==
  {[i \in 1 .. Len(cascade) |-> cascade[f[i]]] :
     f \in {g \in [1 .. Len(cascade) -> 1 .. Len(cascade)] :
              \A i, j \in 1 .. Len(cascade) : g[i] = g[j] => i = j}}

\* multiStep from zero delays gives the same output for every order of the
\* stages (the engine's arithmetic on integers is exact).
SameOutputInAnyOrder ==
  response.op = "multiStep" =>
    \A other \in Reorderings :
      runMultiFilter(response.input, Construct(other), FALSE).output
        = response.output

\* C18 as stated.  For every order of the stages the magnitude response is
\* the same at every frequency, and multiStep from zero delays gives the
\* same output for every input.
C18_OrderIrrelevant ==
  response # <<>> =>
    /\ response.op = "responsePoint" =>
         \A other \in Reorderings :
           responsePoint(response.params, Construct(other)).magnitude
             = response.magnitude
    /\ SameOutputInAnyOrder

\* C18.  For every order of the stages the magnitude response at a
\* frequency is the same up to the rounding of the multiplications: the
\* same for a cascade of at most two stages, and for n stages within the
\* factor ((1 + u) / (1 - u))^(n - 1), u = 2^-Precision being the unit of
\* roundoff; and multiStep from zero delays, in exact arithmetic, gives the
\* same output for every input.
C18_OrderWithinRounding ==
  response # <<>> =>
    /\ response.op = "responsePoint" =>
         \A other \in Reorderings :
           LET mine == response.magnitude
               theirs == responsePoint(response.params,
                                       Construct(other)).magnitude
               n == Len(cascade)
           IN  /\ n <= 2 => theirs = mine
               /\ NumLe(NumMul(mine, Num(IntPow(Pow2(Precision) - 1, n - 1))),
                        NumMul(theirs,
                               Num(IntPow(Pow2(Precision) + 1, n - 1))))
    /\ SameOutputInAnyOrder

\* The response of three stages has been computed, and another order of the
\* stages gives a different magnitude.
C18_Witness ==
  /\ response # <<>>
  /\ response.op = "responsePoint"
  /\ Len(cascade) = 3
  /\ \E other \in Reorderings :
       responsePoint(response.params, Construct(other)).magnitude
         # response.magnitude

(***************************************************************************)
(* resample                                                                *)
(*                                                                         *)
(* Numbers are floating point: every operation rounds its exact result to  *)
(* Precision bits.  The lengths and counts used are small enough to be     *)
(* representable, as they are in a double.                                 *)
(***************************************************************************)
\* The value undefined: reading an array past its end.  In arithmetic it
\* counts as not-a-number.
Undefined == [nan |-> TRUE, n |-> 0, d |-> 0]

\* input[i], i counted from 0.
At(input, i) ==
  IF i >= 0 /\ i < Len(input) THEN input[i + 1] ELSE Undefined

\* Math.floor and Math.ceil.
Floor(x) == x.n \div x.d

Ceil(x) == -((-x.n) \div x.d)

\* The loop of lines 30-42 from i on.
RECURSIVE resampleLoop(_, _, _, _, _)
resampleLoop(input, n, step, i, points) ==
  IF i >= n
  THEN points
  ELSE LET idx == FMul(Num(i), step)
           left == Floor(idx)
           right == Ceil(idx)
           ratio == FSub(idx, Num(left))
           value == FAdd(FMul(At(input, left), FSub(Num(1), ratio)),
                         FMul(At(input, right), ratio))
       IN  resampleLoop(input, n, step, i + 1,
                        Append(points,
                               IF left = right
                               THEN At(input, left)
                               ELSE value))

\* Faulty variants of the two definitions after them: the input is kept only
\* for a larger count; the input is kept whatever the count; the array
\* returned for an equal count is the input array.
returnsInputWhenLarger(upsample, n, length) == ~upsample /\ n > length

returnsInputAlways(upsample, n, length) == ~upsample

spreadInPlace(input) == [ret |-> input, same |-> TRUE]

\* The condition of line 16: upsampling is disabled and the count asked is
\* not below the input's length.
returnsInput(upsample, n, length) == ~upsample /\ n >= length

\* [...input], line 19: a new array with the input's elements.
spread(input) == [ret |-> input, same |-> FALSE]

\* resample(input, n, upsample), lines 8-45: the array returned, and
\* whether it is the input array itself.
resample(input, n, upsample) ==
  LET length == Len(input)
  IN  IF returnsInput(upsample, n, length)
      THEN [ret |-> input, same |-> TRUE]
      ELSE IF length = n
      THEN spread(input)
      ELSE IF n = 1
      THEN [ret |-> <<At(input, (length - 1) \div 2)>>, same |-> FALSE]
      ELSE [ret |-> resampleLoop(input, n,
                                 FDiv(Num(length - 1), Num(n - 1)), 0, <<>>),
            same |-> FALSE]

\* The longest input and the largest count asked.
MaxSeries == 14

MaxPoints == 14

\* The inputs: a ramp 1, 2, ..., and a run of zeros closed by a one.
SeriesInputs ==
  {[i \in 1 .. len |-> Num(i)] : len \in 0 .. MaxSeries}
  \cup {[i \in 1 .. len |-> Num(IF i = len THEN 1 ELSE 0)] :
          len \in 1 .. MaxSeries}

InitResample ==
  /\ series \in [input : SeriesInputs, n : 1 .. MaxPoints, upsample : BOOLEAN]
  /\ resampled = <<>>
  /\ NoFile
  /\ NoConversion
  /\ NoEngine
  /\ NoDesign
  /\ NoTwin
  /\ NoResponse
  /\ NoLater

\* The call resample(series.input, series.n, series.upsample).
Resample ==
  /\ resampled = <<>>
  /\ resampled' = resample(series.input, series.n, series.upsample)
  /\ UNCHANGED <<series, edfVars, d2pVars, iirVars, designVars, twinVars,
                 respVars, laterVars>>

NextResample == Resample

SpecResample == InitResample /\ [][NextResample]_vars

\* C20.  For a non-empty input and n >= 2, resample(input, n) returns n
\* values of which the first is the input's first sample and the last the
\* input's last sample.
C20_EndpointsKept ==
  (/\ resampled # <<>>
   /\ series.upsample
   /\ series.input # <<>>
   /\ series.n >= 2)
  => /\ Len(resampled.ret) = series.n
     /\ NumEq(resampled.ret[1], series.input[1])
     /\ NumEq(resampled.ret[series.n], series.input[Len(series.input)])

\* C21.  For n >= 2 and n # len(input), output i of resample is the linear
\* interpolation input[l]*(1-t) + input[r]*t at the position
\* p = i*(len-1)/(n-1), with l = floor(p), r = ceil(p), t = p - l, and l
\* and r are inside 0 .. len-1: no read falls outside the input.
C21_InterpolatesInside ==
  (/\ resampled # <<>>
   /\ series.upsample \/ series.n < Len(series.input)
   /\ series.n >= 2
   /\ series.n # Len(series.input))
  => \A i \in 0 .. series.n - 1 :
       LET input == series.input
           p == FMul(Num(i), FDiv(Num(Len(input) - 1), Num(series.n - 1)))
           l == Floor(p)
           r == Ceil(p)
           t == FSub(p, Num(l))
       IN  /\ l \in 0 .. Len(input) - 1
           /\ r \in 0 .. Len(input) - 1
           /\ Len(resampled.ret) = series.n
           /\ resampled.ret[i + 1]
                = IF l = r
                  THEN input[l + 1]
                  ELSE FAdd(FMul(input[l + 1], FSub(Num(1), t)),
                            FMul(input[r + 1], t))


\* C22.  resample(x, n) with n = len(x) and upsampling enabled returns a
\* sequence equal to x element by element which is a new array, not x.
C22_EqualCopy ==
  (/\ resampled # <<>>
   /\ series.upsample
   /\ series.n = Len(series.input))
  => /\ Len(resampled.ret) = Len(series.input)
     /\ \A i \in 1 .. Len(series.input) :
          NumEq(resampled.ret[i], series.input[i])
     /\ ~resampled.same

\* A copy of an input of several samples has been returned.
C22_Witness ==
  /\ resampled # <<>>
  /\ series.upsample
  /\ series.n = Len(series.input)
  /\ Len(series.input) >= 2
  /\ ~resampled.same

\* C23.  With upsampling disabled and n >= len(input), resample returns the
\* input array itself, for every input, the empty one included.
C23_InputReturned ==
  (/\ resampled # <<>>
   /\ ~series.upsample
   /\ series.n >= Len(series.input))
  => /\ resampled.same
     /\ resampled.ret = series.input

\* The input itself has been returned for a count equal to its length, and
\* the call is one that would interpolate were upsampling enabled.
C23_Witness ==
  /\ resampled # <<>>
  /\ ~series.upsample
  /\ series.n = Len(series.input)
  /\ Len(series.input) >= 2
  /\ resampled.same
  /\ resampled.ret = series.input

\* C24.  resample(x, 1) on an input whose length is not 1 returns the one
\* element x[floor((len-1)/2)], which is a sample of the input and never a
\* missing value.
C24_MiddleElement ==
  (/\ resampled # <<>>
   /\ series.upsample
   /\ series.n = 1
   /\ Len(series.input) # 1)
  => LET mid == (Len(series.input) - 1) \div 2
     IN  /\ Len(resampled.ret) = 1
         /\ mid \in 0 .. Len(series.input) - 1
         /\ resampled.ret[1] = series.input[mid + 1]

\* C29.  With upsampling disabled and n >= 1, resample returns exactly
\* min(len(input), n) values.
C29_AtMostN ==
  (/\ resampled # <<>>
   /\ ~series.upsample
   /\ series.n >= 1)
  => Len(resampled.ret) = Min(Len(series.input), series.n)

\* An input longer than the count asked has been cut down to that count by
\* the interpolating loop.
C29_Witness ==
  /\ resampled # <<>>
  /\ ~series.upsample
  /\ series.n >= 2
  /\ Len(series.input) > series.n
  /\ Len(resampled.ret) = series.n

(***************************************************************************)
(* The signal helpers: getFiltersForSignal, convertSignalUnit and           *)
(* getYAxisRangeForSignal                                                   *)
(*                                                                         *)
(* A signal type is the name of its SignalType member.  A stage of a        *)
(* designed cascade is kept with the design it was computed for (Fs, Fc,    *)
(* behavior), since the model of calcCoeffs keeps no numeric value.         *)
(***************************************************************************)
SignalTypes ==
  {"EEG", "EOG", "EMG", "ECG", "AIRFLOW", "SPO2", "SPCO2", "HR", "PRESSURE",
   "POSITION", "TEMPERATURE", "SNORE", "BELT", "UNKNOWN"}

\* A comma operator that would give its first operand.
CommaFirst(a, b) == a

\* The comma operator of lines 352 and 364: (a, b) evaluates a, then b, and
\* is the value of b.
Comma(a, b) == b

\* calcCoeffs called as highpass and lowpassIfNeeded call it (lines 329-335
\* and 340-346): Butterworth, order 2, neither transform nor preGain given.
Butterworth2(sampleRate, Fc, behavior) ==
  LET r == calcCoeffs([order |-> <<2>>, transform |-> "undefined",
                       behavior |-> behavior,
                       characteristic |-> "butterworth",
                       lookup |-> "undefined", BW |-> "undefined",
                       preGain |-> FALSE])
  IN  IF r.ok
      THEN Returned([j \in 1 .. Len(r.value) |->
                       [Fs |-> sampleRate, Fc |-> Fc, behavior |-> behavior,
                        coeffs |-> r.value[j]]])
      ELSE r

\* highpass(Fc), lines 328-336.
highpass(sampleRate, Fc) == Butterworth2(sampleRate, Fc, "highpass")

\* lowpassIfNeeded(Fc), lines 338-347.
lowpassIfNeeded(sampleRate, Fc) ==
  IF NumLe(NumDiv(Num(sampleRate), Num(2)), Fc)
  THEN Returned(<<>>)
  ELSE Butterworth2(sampleRate, Fc, "lowpass")

\* The body of a switch arm: the stages of highpass(hp), then those of
\* lowpassIfNeeded(lp), pushed onto the empty filters.
Arm(sampleRate, hp, lp) ==
  LET h == highpass(sampleRate, hp)
      l == lowpassIfNeeded(sampleRate, lp)
  IN  IF ~h.ok THEN h
      ELSE IF ~l.ok THEN l
      ELSE Returned(h.value \o l.value)

\* getFiltersForSignal(signalType, sampleRate), lines 323-382: the arms are
\* compared with signalType one after the other, by ===.
getFiltersForSignal(signalType, sampleRate) ==
  IF signalType = Comma("EEG", "EOG")
  THEN Arm(sampleRate, Rat(3, 10), Num(35))
  ELSE IF signalType = "EMG"
  THEN Arm(sampleRate, Num(10), Num(100))
  ELSE IF signalType = "ECG"
  THEN Arm(sampleRate, Rat(3, 10), Num(70))
  ELSE IF signalType = Comma("AIRFLOW", "BELT")
  THEN Arm(sampleRate, Rat(1, 10), Num(15))
  ELSE IF signalType = "PRESSURE"
  THEN Arm(sampleRate, Rat(3, 100), Num(100))
  ELSE IF signalType = "SNORE"
  THEN Arm(sampleRate, Num(10), Num(100))
  ELSE Returned(<<>>)

\* The sample rates asked for, in Hz: below and above twice each lowpass
\* corner.
SampleRates == {1, 25, 30, 64, 70, 100, 128, 140, 200, 256, 512}

FilterCalls ==
  [op : {"getFiltersForSignal"}, signalType : SignalTypes,
   sampleRate : SampleRates]

\* The call getFiltersForSignal(asked.signalType, asked.sampleRate).
GetFiltersForSignal ==
  /\ asked.op = "getFiltersForSignal"
  /\ answered = <<>>
  /\ answered' = <<getFiltersForSignal(asked.signalType, asked.sampleRate)>>
  /\ UNCHANGED <<asked, viewerVars, edfVars, d2pVars, iirVars, designVars,
                 twinVars, respVars, resampleVars>>

\* The members of SignalUnit, units.ts lines 6-48.
SignalUnits ==
  {"MICROVOLT", "MILLIVOLT", "VOLT", "LITERS", "MILLILITERS", "CM_H2O",
   "MM_HG", "PA", "PERCENT", "HZ", "BPM", "CELSIUS", "FAHRENHEIT", "KELVIN",
   "DECIBEL", "DEGREES", "SECONDS", "MILLISECONDS", "MICROSECONDS",
   "MILLIMETERS", "CENTIMETERS", "METERS"}

\* A decimal literal of the source that is no integer (0.73556, 98.0665,
\* 133.322, 273.15): the floating-point number nearest to it.  The integer
\* factors (10, 60, 100, 1000, 1000000, 9, 5, 32) are exact in a double and
\* are kept exact.
Literal(n, d) == Round(Rat(n, d))

\* throw new Error(`Incompatible unit conversion from ... to ...`).
Incompatible == Failed("Incompatible unit conversion")

\* A conversion that takes every unit for compatible with every other.
convertSignalUnitLenient(value, fromUnit, toUnit) == Returned(value)

\* convertSignalUnit(value, fromUnit, toUnit), units.ts lines 159-380.
convertSignalUnit(value, fromUnit, toUnit) ==
  IF fromUnit = toUnit THEN Returned(value)
  ELSE CASE fromUnit = "VOLT" ->
           CASE toUnit = "MICROVOLT" -> Returned(FMul(value, Num(1000000)))
             [] toUnit = "MILLIVOLT" -> Returned(FMul(value, Num(1000)))
             [] OTHER -> Incompatible
    [] fromUnit = "MICROVOLT" ->
           CASE toUnit = "VOLT" -> Returned(FDiv(value, Num(1000000)))
             [] toUnit = "MILLIVOLT" -> Returned(FDiv(value, Num(1000)))
             [] OTHER -> Incompatible
    [] fromUnit = "MILLIVOLT" ->
           CASE toUnit = "VOLT" -> Returned(FDiv(value, Num(1000)))
             [] toUnit = "MICROVOLT" -> Returned(FMul(value, Num(1000)))
             [] OTHER -> Incompatible
    [] fromUnit = "LITERS" ->
           CASE toUnit = "MILLILITERS" -> Returned(FMul(value, Num(1000)))
             [] OTHER -> Incompatible
    [] fromUnit = "MILLILITERS" ->
           CASE toUnit = "LITERS" -> Returned(FDiv(value, Num(1000)))
             [] OTHER -> Incompatible
    [] fromUnit = "CM_H2O" ->
           CASE toUnit = "MM_HG" -> Returned(FMul(value, Literal(73556, 100000)))
             [] toUnit = "PA" -> Returned(FMul(value, Literal(980665, 10000)))
             [] OTHER -> Incompatible
    [] fromUnit = "MM_HG" ->
           CASE toUnit = "CM_H2O" -> Returned(FDiv(value, Literal(73556, 100000)))
             [] toUnit = "PA" -> Returned(FMul(value, Literal(133322, 1000)))
             [] OTHER -> Incompatible
    [] fromUnit = "PA" ->
           CASE toUnit = "CM_H2O" -> Returned(FDiv(value, Literal(980665, 10000)))
             [] toUnit = "MM_HG" -> Returned(FDiv(value, Literal(133322, 1000)))
             [] OTHER -> Incompatible
    [] fromUnit = "HZ" ->
           CASE toUnit = "BPM" -> Returned(FMul(value, Num(60)))
             [] OTHER -> Incompatible
    [] fromUnit = "BPM" ->
           CASE toUnit = "HZ" -> Returned(FDiv(value, Num(60)))
             [] OTHER -> Incompatible
    [] fromUnit = "CELSIUS" ->
           CASE toUnit = "FAHRENHEIT" -> Returned(FAdd(FDiv(FMul(value, Num(9)), Num(5)), Num(32)))
             [] toUnit = "KELVIN" -> Returned(FAdd(value, Literal(27315, 100)))
             [] OTHER -> Incompatible
    [] fromUnit = "FAHRENHEIT" ->
           CASE toUnit = "CELSIUS" -> Returned(FDiv(FMul(FSub(value, Num(32)), Num(5)), Num(9)))
             [] toUnit = "KELVIN" -> Returned(FAdd(FDiv(FMul(FSub(value, Num(32)), Num(5)), Num(9)),
                                                   Literal(27315, 100)))
             [] OTHER -> Incompatible
    [] fromUnit = "KELVIN" ->
           CASE toUnit = "CELSIUS" -> Returned(FSub(value, Literal(27315, 100)))
             [] toUnit = "FAHRENHEIT" -> Returned(FAdd(FDiv(FMul(FSub(value, Literal(27315, 100)),
                                                            Num(9)), Num(5)), Num(32)))
             [] OTHER -> Incompatible
    [] fromUnit = "SECONDS" ->
           CASE toUnit = "MILLISECONDS" -> Returned(FMul(value, Num(1000)))
             [] toUnit = "MICROSECONDS" -> Returned(FMul(value, Num(1000000)))
             [] OTHER -> Incompatible
    [] fromUnit = "MILLISECONDS" ->
           CASE toUnit = "SECONDS" -> Returned(FDiv(value, Num(1000)))
             [] toUnit = "MICROSECONDS" -> Returned(FMul(value, Num(1000)))
             [] OTHER -> Incompatible
    [] fromUnit = "MICROSECONDS" ->
           CASE toUnit = "SECONDS" -> Returned(FDiv(value, Num(1000000)))
             [] toUnit = "MILLISECONDS" -> Returned(FDiv(value, Num(1000)))
             [] OTHER -> Incompatible
    [] fromUnit = "METERS" ->
           CASE toUnit = "CENTIMETERS" -> Returned(FMul(value, Num(100)))
             [] toUnit = "MILLIMETERS" -> Returned(FMul(value, Num(1000)))
             [] OTHER -> Incompatible
    [] fromUnit = "CENTIMETERS" ->
           CASE toUnit = "METERS" -> Returned(FDiv(value, Num(100)))
             [] toUnit = "MILLIMETERS" -> Returned(FMul(value, Num(10)))
             [] OTHER -> Incompatible
    [] fromUnit = "MILLIMETERS" ->
           CASE toUnit = "METERS" -> Returned(FDiv(value, Num(1000)))
             [] toUnit = "CENTIMETERS" -> Returned(FDiv(value, Num(10)))
             [] OTHER -> Incompatible
    [] OTHER -> Incompatible

\* The values converted: zero, integers, a negative value and fractions.
UnitValues ==
  {Num(0), Num(1), Num(3), Num(7), Num(10), Num(-5), Rat(1, 2), Rat(3, 4)}

ConversionCalls ==
  [op : {"convertSignalUnit"}, value : UnitValues, fromUnit : SignalUnits,
   toUnit : SignalUnits]

\* The call convertSignalUnit(asked.value, asked.fromUnit, asked.toUnit).
ConvertSignalUnit ==
  /\ asked.op = "convertSignalUnit"
  /\ answered = <<>>
  /\ answered' = <<convertSignalUnit(asked.value, asked.fromUnit, asked.toUnit)>>
  /\ UNCHANGED <<asked, viewerVars, edfVars, d2pVars, iirVars, designVars,
                 twinVars, respVars, resampleVars>>

\* The way back: the value returned is converted from asked.toUnit to
\* asked.fromUnit.
ConvertBack ==
  /\ asked.op = "convertSignalUnit"
  /\ Len(answered) = 1
  /\ answered[1].ok
  /\ answered' = Append(answered,
                        convertSignalUnit(answered[1].value, asked.toUnit,
                                          asked.fromUnit))
  /\ UNCHANGED <<asked, viewerVars, edfVars, d2pVars, iirVars, designVars,
                 twinVars, respVars, resampleVars>>

\* A text of a signal header is a string; "@" stands for the micro sign and
\* "^" for the degree sign, which have no upper or lower case.
Lower(c) ==
  CASE c = "A" -> "a" [] c = "B" -> "b" [] c = "C" -> "c" [] c = "D" -> "d"
    [] c = "E" -> "e" [] c = "F" -> "f" [] c = "G" -> "g" [] c = "H" -> "h"
    [] c = "I" -> "i" [] c = "J" -> "j" [] c = "K" -> "k" [] c = "L" -> "l"
    [] c = "M" -> "m" [] c = "N" -> "n" [] c = "O" -> "o" [] c = "P" -> "p"
    [] c = "Q" -> "q" [] c = "R" -> "r" [] c = "S" -> "s" [] c = "T" -> "t"
    [] c = "U" -> "u" [] c = "V" -> "v" [] c = "W" -> "w" [] c = "X" -> "x"
    [] c = "Y" -> "y" [] c = "Z" -> "z" [] OTHER -> c

\* String.prototype.toLowerCase.
RECURSIVE toLowerCase(_)
toLowerCase(text) ==
  IF text = ""
  THEN ""
  ELSE Lower(SubSeq(text, 1, 1)) \o toLowerCase(SubSeq(text, 2, Len(text)))

\* String.prototype.trim on texts whose only white space is the space.
RECURSIVE trim(_)
trim(text) ==
  IF text # "" /\ SubSeq(text, 1, 1) = " "
  THEN trim(SubSeq(text, 2, Len(text)))
  ELSE IF text # "" /\ SubSeq(text, Len(text), Len(text)) = " "
  THEN trim(SubSeq(text, 1, Len(text) - 1))
  ELSE text

\* normalize(text), part_003 line 176, and unit.trim().toLowerCase(),
\* units.ts line 154.
normalize(text) == toLowerCase(trim(text))

\* unitAliasMap, units.ts lines 51-150: the keys of each unit.
unitAliasMap ==
  [key \in {"@v", "uv", "microvolt", "microvolts"}
       |-> "MICROVOLT"]
  @@ [key \in {"mv", "millivolt", "millivolts"}
       |-> "MILLIVOLT"]
  @@ [key \in {"v", "volt", "volts"}
       |-> "VOLT"]
  @@ [key \in {"l", "liter", "liters", "litre", "litres"}
       |-> "LITERS"]
  @@ [key \in {"ml", "milliliter", "milliliters", "millilitre",
                 "millilitres"}
       |-> "MILLILITERS"]
  @@ [key \in {"cmh2o", "cm_h2o", "centimeterofwater",
                 "centimeterofwatercolumn"}
       |-> "CM_H2O"]
  @@ [key \in {"mmhg", "mm_hg", "millimeterofmercury"}
       |-> "MM_HG"]
  @@ [key \in {"pa", "pascal", "pascals"}
       |-> "PA"]
  @@ [key \in {"%", "percent", "percentage"}
       |-> "PERCENT"]
  @@ [key \in {"hz", "hertz"}
       |-> "HZ"]
  @@ [key \in {"bpm", "beatsperminute"}
       |-> "BPM"]
  @@ [key \in {"^c", "c", "celsius", "centigrade", "degc"}
       |-> "CELSIUS"]
  @@ [key \in {"^f", "f", "fahrenheit"}
       |-> "FAHRENHEIT"]
  @@ [key \in {"k", "kelvin"}
       |-> "KELVIN"]
  @@ [key \in {"db", "decibel", "decibels"}
       |-> "DECIBEL"]
  @@ [key \in {"^", "degree", "degrees"}
       |-> "DEGREES"]
  @@ [key \in {"s", "sec", "second", "seconds"}
       |-> "SECONDS"]
  @@ [key \in {"ms", "millisecond", "milliseconds"}
       |-> "MILLISECONDS"]
  @@ [key \in {"@s", "us", "microsecond", "microseconds"}
       |-> "MICROSECONDS"]
  @@ [key \in {"mm", "millimeter", "millimeters", "millimetre",
                 "millimetres"}
       |-> "MILLIMETERS"]
  @@ [key \in {"cm", "centimeter", "centimeters", "centimetre",
                 "centimetres"}
       |-> "CENTIMETERS"]
  @@ [key \in {"m", "meter", "meters", "metre", "metres"}
       |-> "METERS"]

\* The keys unitAliasMap inherits from Object.prototype that are their own
\* lower case: the lookup gives an object that is no SignalUnit.
InheritedKeys ==
  {"constructor",
   "__proto__"}

\* parseSignalUnit(unit), units.ts lines 153-156: a SignalUnit, "inherited"
\* for an object inherited from Object.prototype, or "null".
parseSignalUnit(unit) ==
  LET normalizedUnit == normalize(unit)
  IN  IF normalizedUnit \in DOMAIN unitAliasMap
      THEN unitAliasMap[normalizedUnit]
      ELSE IF normalizedUnit \in InheritedKeys THEN "inherited"
      ELSE "null"

\* containsAny(text, keywords), part_003 lines 178-179.
containsAny(text, keywords) == \E k \in keywords : Includes(text, k)

\* getSignalType(signal), part_003 lines 175-288.
getSignalType(signal) ==
  LET label == normalize(signal.label)
      transducer == normalize(signal.transducerType)
      unit == normalize(signal.physicalDimension)
  IN  IF \/ containsAny(label, {"eeg"})
         \/ containsAny(transducer, {"eeg"})
      THEN "EEG"
      ELSE IF \/ containsAny(label, {"eog"})
              \/ containsAny(transducer, {"eog"})
      THEN "EOG"
      ELSE IF \/ containsAny(label, {"emg"})
              \/ containsAny(transducer, {"emg"})
      THEN "EMG"
      ELSE IF \/ containsAny(label, {"ecg", "ekg"})
              \/ containsAny(transducer, {"ecg", "ekg"})
      THEN "ECG"
      ELSE IF /\ \/ containsAny(label, {"flow", "airflow"})
                 \/ containsAny(transducer, {"nasal", "thermistor",
                        "airflow"})
              /\ containsAny(unit, {"l/s", "ml/s", "l/min", "ml/min"})
      THEN "AIRFLOW"
      ELSE IF \/ containsAny(label, {"spo2", "oximetry"})
              \/ containsAny(transducer, {"spo2", "pulse ox"})
              \/ unit = "%"
      THEN "SPO2"
      ELSE IF \/ containsAny(label, {"co2", "spco2"})
              \/ containsAny(transducer, {"capnograph", "co2"})
              \/ Includes(unit, "mmhg")
      THEN "SPCO2"
      ELSE IF \/ containsAny(label, {"hr", "heart rate"})
              \/ containsAny(transducer, {"heart rate", "pulse"})
              \/ unit = "bpm"
      THEN "HR"
      ELSE IF \/ containsAny(label, {"pressure"})
              \/ containsAny(transducer, {"cpap", "pressure"})
              \/ containsAny(unit, {"cmh2o", "mmhg"})
      THEN "PRESSURE"
      ELSE IF \/ containsAny(label, {"position", "pos"})
              \/ containsAny(transducer, {"position", "body pos"})
      THEN "POSITION"
      ELSE IF \/ containsAny(label, {"temp", "temperature"})
              \/ containsAny(transducer, {"thermistor", "temperature"})
              \/ containsAny(unit, {"^c", "celsius"})
      THEN "TEMPERATURE"
      ELSE IF \/ containsAny(label, {"snore"})
              \/ containsAny(transducer, {"snore", "microphone"})
              \/ unit = "dB"
      THEN "SNORE"
      ELSE IF \/ containsAny(label, {"belt", "thoracic", "abdominal",
                     "effort"})
              \/ containsAny(transducer, {"belt", "strain gauge"})
      THEN "BELT"
      ELSE "UNKNOWN"

\* SIGNAL_SENSITIVITIES, part_003 lines 153-171.
Sensitivity(value, zero, unit) == [value |-> value, zero |-> zero, unit |-> unit]

SIGNAL_SENSITIVITIES ==
  [t \in SignalTypes |->
     CASE t = "EEG" -> Sensitivity(Num(7), Num(0), "MICROVOLT")
       [] t = "EOG" -> Sensitivity(Num(10), Num(0), "MICROVOLT")
       [] t = "EMG" -> Sensitivity(Num(10), Num(0), "MICROVOLT")
       [] t = "ECG" -> Sensitivity(Num(10), Num(0), "MILLIVOLT")
       [] t = "AIRFLOW" -> Sensitivity(Literal(1, 10), Num(0), "LITERS")
       [] t = "SPO2" -> Sensitivity(Rat(1, 2), Num(0), "PERCENT")
       [] t = "SPCO2" -> Sensitivity(Rat(1, 2), Num(0), "PERCENT")
       [] t = "HR" -> Sensitivity(Num(2), Num(0), "BPM")
       [] t = "PRESSURE" -> Sensitivity(Rat(1, 2), Num(0), "CM_H2O")
       [] t = "POSITION" -> Sensitivity(Num(30), Num(0), "DEGREES")
       [] t = "TEMPERATURE" -> Sensitivity(Num(10), Num(35), "CELSIUS")
       [] t = "SNORE" -> Sensitivity(Num(1), Num(0), "DECIBEL")
       [] t = "BELT" -> Sensitivity(Num(5), Num(0), "MILLIMETERS")
       [] t = "UNKNOWN" -> Sensitivity(Num(1), Num(0), "MICROVOLT")]

\* getYAxisRangeForSignal(signalType, physicalDimension, displayHeightMM),
\* part_003 lines 296-321; an error of convertSignalUnit is not caught.
getYAxisRangeForSignal(signalType, physicalDimension, displayHeightMM) ==
  LET sensitivity == SIGNAL_SENSITIVITIES[signalType]
      parsed == parseSignalUnit(physicalDimension)
      unit == IF parsed = "null" THEN sensitivity.unit ELSE parsed
      zero == convertSignalUnit(sensitivity.zero, sensitivity.unit, unit)
      sensitivityPerMM ==
        convertSignalUnit(sensitivity.value, sensitivity.unit, unit)
      rangeHalf ==
        FDiv(FMul(sensitivityPerMM.value, Num(displayHeightMM)), Num(2))
  IN  IF ~zero.ok THEN zero
      ELSE IF ~sensitivityPerMM.ok THEN sensitivityPerMM
      ELSE Returned(<<FSub(zero.value, rangeHalf),
                      FAdd(zero.value, rangeHalf)>>)

\* The signal headers shown: a label for each signal type, some of them
\* with a transducer, in each of the physical dimensions.
SignalLabels ==
  {"EEG Fpz-Cz", "EOG horizontal", "EMG submental", "ECG", "Airflow",
   "SpO2", "CO2", "HR", "Pressure", "Position", "Temp rectal", "Snore",
   "Thoracic effort", "Event marker"}

Transducers == {"", "Thermistor"}

PhysicalDimensions ==
  {"uV", "mV", " mV ", "V", "%", "bpm", "l/s", "mmHg", "cmH2O", "degC", "dB",
   "mm", "", "constructor"}

AxisCalls ==
  [op : {"getYAxisRangeForSignal"},
   signal : [label : SignalLabels, transducerType : Transducers,
             physicalDimension : PhysicalDimensions]]

\* yAxisRanges, PSGViewer.tsx lines 41-46, for one signal: the type is
\* that of getSignalType and the display height the default, 50 mm.
GetYAxisRangeForSignal ==
  /\ asked.op = "getYAxisRangeForSignal"
  /\ answered = <<>>
  /\ answered' = <<getYAxisRangeForSignal(getSignalType(asked.signal),
                                          asked.signal.physicalDimension, 50)>>
  /\ UNCHANGED <<asked, viewerVars, edfVars, d2pVars, iirVars, designVars,
                 twinVars, respVars, resampleVars>>

InitSignal ==
  /\ asked \in FilterCalls \cup ConversionCalls \cup AxisCalls
  /\ answered = <<>>
  /\ NoViewer
  /\ NoFile
  /\ NoConversion
  /\ NoEngine
  /\ NoDesign
  /\ NoTwin
  /\ NoResponse
  /\ NoResample

NextSignal ==
  \/ GetFiltersForSignal
  \/ ConvertSignalUnit
  \/ ConvertBack
  \/ GetYAxisRangeForSignal

SpecSignal == InitSignal /\ [][NextSignal]_vars

\* The cascade is that of the arm with corners hp and lp: stages of a
\* highpass at hp, followed by stages of a lowpass at lp where lp is below
\* half the sample rate, and nothing else.
IsArm(value, sampleRate, hp, lp) ==
  /\ value # <<>>
  /\ value[1].behavior = "highpass"
  /\ \A j \in 1 .. Len(value) :
       /\ value[j].Fs = sampleRate
       /\ \/ value[j].behavior = "highpass" /\ value[j].Fc = hp
          \/ value[j].behavior = "lowpass" /\ value[j].Fc = lp
       /\ j > 1 /\ value[j].behavior = "highpass"
            => value[j - 1].behavior = "highpass"
  /\ (\E j \in 1 .. Len(value) : value[j].behavior = "lowpass")
       <=> 2 * lp.n < sampleRate * lp.d

\* C25 as stated.  Of the two paired arms the first-listed category (EEG,
\* AIRFLOW) gets the arm's highpass and lowpass filters, and the
\* second-listed (EOG, BELT) gets the empty default cascade.
C25_SecondOfPairUnfiltered ==
  (asked # <<>> /\ asked.op = "getFiltersForSignal" /\ answered # <<>>)
  => /\ answered[1].ok
     /\ asked.signalType \in {"EOG", "BELT"} => answered[1].value = <<>>
     /\ asked.signalType = "EEG"
          => IsArm(answered[1].value, asked.sampleRate, Rat(3, 10), Num(35))
     /\ asked.signalType = "AIRFLOW"
          => IsArm(answered[1].value, asked.sampleRate, Rat(1, 10), Num(15))

\* C25.  Each paired arm matches only one category of its pair, the
\* second-listed: EOG and BELT get the arm's highpass and lowpass filters,
\* and the first-listed, EEG and AIRFLOW, get the empty default cascade.
C25_FirstOfPairUnfiltered ==
  (asked # <<>> /\ asked.op = "getFiltersForSignal" /\ answered # <<>>)
  => /\ answered[1].ok
     /\ asked.signalType \in {"EEG", "AIRFLOW"} => answered[1].value = <<>>
     /\ asked.signalType = "EOG"
          => IsArm(answered[1].value, asked.sampleRate, Rat(3, 10), Num(35))
     /\ asked.signalType = "BELT"
          => IsArm(answered[1].value, asked.sampleRate, Rat(1, 10), Num(15))

\* The filters of an EOG signal have been asked for at a sample rate that
\* needs the lowpass, and both the highpass and the lowpass have come back.
C25_Witness ==
  /\ asked # <<>>
  /\ asked.op = "getFiltersForSignal"
  /\ answered # <<>>
  /\ asked.signalType = "EOG"
  /\ asked.sampleRate = 100
  /\ answered[1].value # <<>>
  /\ \E j \in 1 .. Len(answered[1].value) :
       answered[1].value[j].behavior = "lowpass"

\* The conversion asked for is between units of one of the seven
\* dimensions (voltage, volume, pressure, rate, temperature, time,
\* distance).
Dimensions ==
  {{"MICROVOLT", "MILLIVOLT", "VOLT"}, {"LITERS", "MILLILITERS"},
   {"CM_H2O", "MM_HG", "PA"}, {"HZ", "BPM"},
   {"CELSIUS", "FAHRENHEIT", "KELVIN"},
   {"SECONDS", "MILLISECONDS", "MICROSECONDS"},
   {"MILLIMETERS", "CENTIMETERS", "METERS"}}

SameDimension(u, v) == \E dim \in Dimensions : u \in dim /\ v \in dim

\* The error is raised exactly when the units differ and are not of one
\* dimension, and identical units give the value unchanged.
RaisesExactly ==
  /\ ~answered[1].ok
       <=> /\ asked.fromUnit # asked.toUnit
           /\ ~SameDimension(asked.fromUnit, asked.toUnit)
  /\ asked.fromUnit = asked.toUnit => answered[1].value = asked.value

\* C26 as stated.  convertSignalUnit raises exactly when the units differ
\* and are not of one dimension; identical units give the value unchanged;
\* and converting there and back gives the original value.
C26_ThereAndBackExact ==
  (asked # <<>> /\ asked.op = "convertSignalUnit" /\ answered # <<>>)
  => /\ RaisesExactly
     /\ Len(answered) = 2
          => answered[2].ok /\ answered[2].value = asked.value

\* C26, amended.  convertSignalUnit raises exactly when the units differ
\* and are not of one dimension; identical units give the value unchanged;
\* and converting there and back gives the original value up to rounding:
\* within three units of roundoff (2^-Precision) of the value between
\* units of a scale, and within eight units of roundoff of |value| + 300
\* between temperatures.
C26_ThereAndBackWithinRounding ==
  (asked # <<>> /\ asked.op = "convertSignalUnit" /\ answered # <<>>)
  => /\ RaisesExactly
     /\ Len(answered) = 2
          => /\ answered[2].ok
             /\ LET off == NumMul(Num(Pow2(Precision)),
                                  NumAbs(NumSub(answered[2].value,
                                                asked.value)))
                IN  IF asked.fromUnit \in {"CELSIUS", "FAHRENHEIT", "KELVIN"}
                    THEN NumLe(off, NumMul(Num(8),
                                           NumAdd(NumAbs(asked.value),
                                                  Num(300))))
                    ELSE NumLe(off, NumMul(Num(3), NumAbs(asked.value)))

\* A value has been converted to another unit of its dimension and back,
\* and has not come back as it was.
C26_Witness ==
  /\ asked # <<>>
  /\ asked.op = "convertSignalUnit"
  /\ Len(answered) = 2
  /\ asked.fromUnit # asked.toUnit
  /\ answered[2].ok
  /\ answered[2].value # asked.value

\* C30.  getYAxisRangeForSignal returns a range [zero - h, zero + h] with
\* h >= 0 and raises no error, for the signal type getSignalType gives a
\* signal and every physical dimension of the signal, a dimension that
\* parses to a unit of another dimension than the type's sensitivity unit
\* included.
C30_RangeNeverRaises ==
  (asked # <<>> /\ asked.op = "getYAxisRangeForSignal" /\ answered # <<>>)
  => /\ answered[1].ok
     /\ NumLe(answered[1].value[1], answered[1].value[2])

(***************************************************************************)
(* PSGViewer: the visible window                                           *)
(*                                                                         *)
(* Times are exact rationals, in seconds.                                  *)
(***************************************************************************)
\* Math.min and Math.max of two numbers.
MathMin(x, y) == IF NumLt(y, x) THEN y ELSE x

MathMax(x, y) == IF NumLt(x, y) THEN y ELSE x

\* epochDuration, PSGViewer.tsx line 30.
epochDuration == 30

\* The most events handled in one run.
MaxEvents == 3

\* handleRelayout, lines 291-296: the range asked for is clamped to the
\* recording and widened to one second.
clampRange(newStart, newEnd) ==
  LET from == MathMax(Num(0), newStart)
      to == MathMin(totalDuration, newEnd)
  IN  IF NumLt(NumSub(to, from), Num(1))
      THEN <<from, NumAdd(from, Num(1))>>
      ELSE <<from, to>>

\* moveBy of handleKeyDown, lines 244-247.
moveBy ==
  LET windowSize == NumSub(xRange[2], xRange[1])
      isEpochView ==
        NumLt(NumAbs(NumSub(windowSize, Num(epochDuration))), Num(1))
  IN  IF isEpochView
      THEN Num(epochDuration)
      ELSE NumMul(windowSize, Rat(1, 10))

\* The recordings shown, by their duration dataRecords * recordDuration:
\* one epoch and longer.
RecordingDurations == {Num(30), Num(45), Num(90), Rat(181, 2)}

\* The ends of the ranges a relayout event carries, relative to the
\* recording: before it, inside it, close to its end and past it.
RangeEnds ==
  {Num(-10), Num(0), Rat(1, 2), Num(10), Num(30),
   NumSub(totalDuration, Num(10)), NumSub(totalDuration, Rat(1, 2)),
   totalDuration, NumAdd(totalDuration, Num(10))}

InitViewer ==
  /\ totalDuration \in RecordingDurations
  /\ xRange = <<Num(0), Num(epochDuration)>>
  /\ events = 0
  /\ NoSignal
  /\ NoFile
  /\ NoConversion
  /\ NoEngine
  /\ NoDesign
  /\ NoTwin
  /\ NoResponse
  /\ NoResample

\* handleKeyDown for ArrowRight, lines 249-258.
ArrowRight ==
  /\ xRange # <<>>
  /\ events < MaxEvents
  /\ events' = events + 1
  /\ LET start == xRange[1]
         end == xRange[2]
         nextStart == MathMin(NumAdd(start, moveBy),
                              NumSub(totalDuration, moveBy))
         nextEnd == MathMin(NumAdd(end, moveBy), totalDuration)
     IN  xRange' = IF NumLe(totalDuration, end)
                   THEN xRange
                   ELSE <<nextStart, nextEnd>>
  /\ UNCHANGED <<totalDuration, signalVars, edfVars, d2pVars, iirVars,
                 designVars, twinVars, respVars, resampleVars>>

\* handleKeyDown for ArrowLeft, lines 259-268.
ArrowLeft ==
  /\ xRange # <<>>
  /\ events < MaxEvents
  /\ events' = events + 1
  /\ LET start == xRange[1]
         end == xRange[2]
         nextStart == MathMax(NumSub(start, moveBy), Num(0))
         nextEnd == MathMax(NumSub(end, moveBy), moveBy)
     IN  xRange' = IF NumLe(start, Num(0))
                   THEN xRange
                   ELSE <<nextStart, nextEnd>>
  /\ UNCHANGED <<totalDuration, signalVars, edfVars, d2pVars, iirVars,
                 designVars, twinVars, respVars, resampleVars>>

\* handleRelayout for an event that carries a range, as "xaxis.range" or as
\* "xaxis.range[0]" and "xaxis.range[1]", lines 279-296.
RelayoutRange(newStart, newEnd) ==
  /\ xRange # <<>>
  /\ events < MaxEvents
  /\ events' = events + 1
  /\ xRange' = clampRange(newStart, newEnd)
  /\ UNCHANGED <<totalDuration, signalVars, edfVars, d2pVars, iirVars,
                 designVars, twinVars, respVars, resampleVars>>

\* handleRelayout for an event that carries "xaxis.autorange" and no range,
\* lines 297-299.
RelayoutAuto ==
  /\ xRange # <<>>
  /\ events < MaxEvents
  /\ events' = events + 1
  /\ xRange' = <<Num(0), Num(epochDuration)>>
  /\ UNCHANGED <<totalDuration, signalVars, edfVars, d2pVars, iirVars,
                 designVars, twinVars, respVars, resampleVars>>

NextViewer ==
  \/ ArrowRight
  \/ ArrowLeft
  \/ \E newStart \in RangeEnds, newEnd \in RangeEnds :
       RelayoutRange(newStart, newEnd)
  \/ RelayoutAuto

SpecViewer == InitViewer /\ [][NextViewer]_vars

\* C27.  For a recording at least one epoch long, after every sequence of
\* ArrowLeft, ArrowRight and relayout events the window [start, end] has
\* 0 <= start < end <= totalDuration.
C27_WindowInsideRecording ==
  (xRange # <<>> /\ NumLe(Num(epochDuration), totalDuration))
  => /\ NumLe(Num(0), xRange[1])
     /\ NumLt(xRange[1], xRange[2])
     /\ NumLe(xRange[2], totalDuration)

(***************************************************************************)
(* The analysis operations of an engine                                    *)
(*                                                                         *)
(* simulate, stepResponse and impulseResponse run the cascade over stages  *)
(* that reinitStages builds for the call; responsePoint and response read  *)
(* the coefficients.  The engines are the two of the heap model above, so  *)
(* that a write into an array of an engine, of the other engine or of the  *)
(* coefficient list shows in store.                                        *)
(***************************************************************************)
\* Stages that are the engine's own (this.cf): no new delay arrays.
reinitStagesOwn(e, hp) == [cf |-> engines[e], store |-> hp]

\* reinitStages(), part_005 lines 142-152: this.filter mapped to stages
\* with new z arrays, on the heap hp.
reinitStagesAt(e, hp) == ConstructAt(shared, hp)

\* calcInputResponse(input), lines 154-156: the output, and the heap once
\* the stages of the call are dropped.
calcInputResponseAt(e, input) ==
  LET stages == reinitStagesAt(e, store)
      r == multiStepAt(input, stages.cf, stages.store, <<>>, 1)
  IN  [out |-> r.output, store |-> SubSeq(r.store, 1, Len(store))]

\* The loop of predefinedResponse, lines 163-171, from the index i (counted
\* from 0) on: the first sample above its successor, then the first sample
\* after it below its successor.
RECURSIVE extremaFrom(_, _, _)
extremaFrom(out, extrema, i) ==
  IF i >= Len(out) - 1
  THEN extrema
  ELSE LET withMax ==
             IF extrema.max = <<>> /\ out[i + 1] > out[i + 2]
             THEN [extrema EXCEPT
                     !.max = <<[sample |-> i, value |-> out[i + 1]]>>]
             ELSE extrema
       IN  IF /\ withMax.max # <<>>
              /\ withMax.min = <<>>
              /\ out[i + 1] < out[i + 2]
           THEN [withMax EXCEPT
                   !.min = <<[sample |-> i, value |-> out[i + 1]]>>]
           ELSE extremaFrom(out, withMax, i + 1)

\* The inputs of stepResponse (() => 1) and impulseResponse
\* ((i) => (i === 0 ? 1 : 0)), lines 216-222.
stepInput(length) == [i \in 1 .. length |-> 1]

impulseInput(length) == [i \in 1 .. length |-> IF i = 1 THEN 1 ELSE 0]

\* predefinedResponse(def, length), lines 158-174, for the input def makes.
predefinedResponseAt(e, input) ==
  LET r == calcInputResponseAt(e, input)
  IN  [out |-> extremaFrom(r.out, [out |-> r.out, max |-> <<>>, min |-> <<>>],
                           1),
       store |-> r.store]

\* The lengths asked of stepResponse and impulseResponse.
Lengths == {0, 1, 4}

\* The resolutions asked of response: the frequencies i of 2 * resolution
\* are whole eighths of a turn.
Resolutions == {2}

\* The record of an analysis call on engines[e]: the heap before and after
\* it, and what it returned.
Analysed(op, e, input, before, after, out) ==
  [op |-> op, e |-> e, input |-> input, before |-> before, after |-> after,
   out |-> out]

\* engines[e].simulate(input), lines 212-214.
SimulateOn(e, input) ==
  LET r == calcInputResponseAt(e, input)
  IN  /\ store' = r.store
      /\ analysed' = Analysed("simulate", e, input, store, r.store, r.out)
      /\ UNCHANGED <<shared, engines, fed, got, turns, edfVars, d2pVars,
                     iirVars, designVars, respVars, resampleVars, laterVars>>

\* engines[e].stepResponse(length), lines 216-218.
StepResponseOn(e, length) ==
  LET r == predefinedResponseAt(e, stepInput(length))
  IN  /\ store' = r.store
      /\ analysed' = Analysed("stepResponse", e, stepInput(length), store,
                              r.store, r.out)
      /\ UNCHANGED <<shared, engines, fed, got, turns, edfVars, d2pVars,
                     iirVars, designVars, respVars, resampleVars, laterVars>>

\* engines[e].impulseResponse(length), lines 220-222.
ImpulseResponseOn(e, length) ==
  LET r == predefinedResponseAt(e, impulseInput(length))
  IN  /\ store' = r.store
      /\ analysed' = Analysed("impulseResponse", e, impulseInput(length),
                              store, r.store, r.out)
      /\ UNCHANGED <<shared, engines, fed, got, turns, edfVars, d2pVars,
                     iirVars, designVars, respVars, resampleVars, laterVars>>

\* engines[e].responsePoint(params), lines 224-226: calcResponse reads the
\* coefficients of this.cf and writes nothing.
ResponsePointOn(e, p) ==
  /\ analysed' = Analysed("responsePoint", e, p, store, store,
                          responsePoint(p, engines[e]))
  /\ UNCHANGED <<shared, store, engines, fed, got, turns, edfVars, d2pVars,
                 iirVars, designVars, respVars, resampleVars, laterVars>>

\* engines[e].response(resolution), lines 228-234: the magnitudes
\* (evaluatePhase fills in phase fields, which are not modelled).
ResponseOn(e, resolution) ==
  /\ analysed' =
       Analysed("response", e, resolution, store, store,
                [i \in 1 .. resolution |->
                   calcResponse([Fs |-> resolution * 2, Fr |-> i - 1],
                                engines[e], Num(1), 1)])
  /\ UNCHANGED <<shared, store, engines, fed, got, turns, edfVars, d2pVars,
                 iirVars, designVars, respVars, resampleVars, laterVars>>

\* The calls are made on the first engine; the second engine and the
\* coefficient list stand by, their delay arrays in store.
NextAnalysis ==
  \/ \E input \in Inputs \ {<<>>} : MultiStepOn(1, input)
  \/ \E input \in Samples : SingleStepOn(1, input)
  \/ \E input \in Inputs : SimulateOn(1, input)
  \/ \E length \in Lengths : StepResponseOn(1, length)
  \/ \E length \in Lengths : ImpulseResponseOn(1, length)
  \/ ResponsePointOn(1, [Fs |-> 8, Fr |-> 1])
  \/ \E resolution \in Resolutions : ResponseOn(1, resolution)

SpecAnalysis == InitTwin /\ [][NextAnalysis]_vars

\* C28.  simulate, stepResponse, impulseResponse, responsePoint and
\* response leave the delay state of the engine (and every other delay
\* array) as it was, so the step calls made before and after them return
\* what they return on an engine that was never analysed; and simulate,
\* stepResponse and impulseResponse return what an engine run alone from
\* zero delay state returns for the input, whatever step calls came before.
C28_AnalysisApart ==
  /\ \A e \in 1 .. 2 : got[e] = Alone(fed[e])
  /\ analysed # <<>>
     => /\ analysed.after = analysed.before
        /\ analysed.op = "simulate"
           => analysed.out = Alone(analysed.input)
        /\ analysed.op \in {"stepResponse", "impulseResponse"}
           => analysed.out.out = Alone(analysed.input)

\* A step response was asked of an engine that carried delay state from
\* earlier step calls, and the engine was stepped again after it.
C28_Witness ==
  /\ analysed # <<>>
  /\ analysed.op = "stepResponse"
  /\ Len(analysed.input) >= 2
  /\ \E i \in 1 .. Len(engines[analysed.e]) :
       /\ analysed.before[engines[analysed.e][i].z] # <<0, 0>>
       /\ store[engines[analysed.e][i].z]
            # analysed.before[engines[analysed.e][i].z]
  /\ Len(fed[analysed.e]) = MaxFed

=============================================================================
